---------------------------- MODULE Spec2Model ----------------------------
(* The specification model of cli_generator: the pydantic entities          *)
(* ArgumentSpec, OptionSpec, CommandSpec and CLISpec with their field and   *)
(* model validators (models.py), SpecGenerator.add_command                  *)
(* (generators/spec_generator.py), CodeGenerator with its filters,          *)
(* renderers and the files it writes (generators/code_generator.py), and    *)
(* the build command (cli.py).                                              *)
(*                                                                          *)
(* Text is modelled as a sequence of one-character strings, so that         *)
(* lstrip("-"), the identifier pattern and the keyword test act on          *)
(* characters.  An Optional value is a sequence of length 0 (None) or 1.    *)
EXTENDS Naturals, Sequences, FiniteSets

VARIABLES level, raw, pc, res, held, again, added, asked, rendered, disk, gen,
          exit

(* The state of the generator side: what the filters and renderers gave for *)
(* one entity, the filesystem, the call of CodeGenerator.generate and the   *)
(* exit of the command that made it.                                        *)
emitVars == <<rendered, disk, gen, exit>>

vars == <<level, raw, pc, res, held, again, added, asked, emitVars>>

-----------------------------------------------------------------------------
(* Bounds of the candidate documents.                                       *)

MaxNameLen == 3

MaxChoices == 2

MaxOptions == 3

MaxArguments == 2

MaxCommands == 3

MaxGlobalOptions == 2

MaxTextLen == 2

MaxDependencies == 2

MaxExamples == 2

MaxEmitCommands == 2

MaxEmissions == 2

MaxSiblings == 4

-----------------------------------------------------------------------------
(* Optional values and sequences.                                           *)

None == << >>

Some(v) == <<v>>

SeqsUpTo(S, n) == UNION {[1..k -> S] : k \in 0..n}

Range(s) == {s[i] : i \in DOMAIN s}

RECURSIVE Flatten(_)
Flatten(ss) == IF ss = << >> THEN << >> ELSE Head(ss) \o Flatten(Tail(ss))

-----------------------------------------------------------------------------
(* Characters.                                                              *)

NL == "\n"

Letters ==
    {"a", "b", "c", "d", "e", "f", "g", "h", "i", "j", "k", "l", "m", "n",
     "o", "p", "q", "r", "s", "t", "u", "v", "w", "x", "y", "z",
     "A", "B", "C", "D", "E", "F", "G", "H", "I", "J", "K", "L", "M", "N",
     "O", "P", "Q", "R", "S", "T", "U", "V", "W", "X", "Y", "Z"}

Digits == {"0", "1", "2", "3", "4", "5", "6", "7", "8", "9"}

(* str.lstrip("-") *)
RECURSIVE LStripDash(_)
LStripDash(s) ==
    IF s # << >> /\ Head(s) = "-" THEN LStripDash(Tail(s)) ELSE s

(* A variant that removes one leading dash only. *)
sanitize_name_once(name) ==
    IF name # << >> /\ Head(name) = "-" THEN Tail(name) ELSE name

(* A variant that removes every dash, the interior ones too. *)
RECURSIVE sanitize_name_every_dash(_)
sanitize_name_every_dash(name) ==
    IF name = << >> THEN << >>
    ELSE IF Head(name) = "-" THEN sanitize_name_every_dash(Tail(name))
    ELSE <<Head(name)>> \o sanitize_name_every_dash(Tail(name))

sanitize_name(name) == LStripDash(name)

-----------------------------------------------------------------------------
(* Validation outcomes.  A construction either yields the entity (ok, val   *)
(* = Some(entity)) or raises a ValidationError carrying its line errors     *)
(* (errs), each with the rule that raised it, the names it lists and the    *)
(* path of the child it was raised in.                                      *)

Err(rule, names) == [rule |-> rule, names |-> names, path |-> << >>]

Under(e, field, i) ==
    [e EXCEPT !.path = <<[field |-> field, index |-> i]>> \o @]

Outcome(self, errs) ==
    [ok |-> errs = << >>,
     val |-> IF errs = << >> THEN Some(self) ELSE None,
     errs |-> errs]

(* The line errors of a list field: every item's errors, in item order. *)
ItemErrors(results, field) ==
    Flatten([i \in 1..Len(results) |->
        [k \in 1..Len(results[i].errs) |-> Under(results[i].errs[k], field, i)]])

(* [n for n in names if n in seen or seen.add(n)] *)
RECURSIVE DupScan(_, _)
DupScan(names, seen) ==
    IF names = << >> THEN << >>
    ELSE IF Head(names) \in seen
         THEN <<Head(names)>> \o DupScan(Tail(names), seen)
         ELSE DupScan(Tail(names), seen \cup {Head(names)})

duplicates(names) == DupScan(names, {})

(* len(names) != len(set(names)) *)
HasDuplicates(names) == Len(names) # Cardinality(Range(names))

-----------------------------------------------------------------------------
(* ArgumentSpec                                                             *)

ArgumentSpec(r) ==
    Outcome([name |-> sanitize_name(r.name), type |-> r.type,
             required |-> r.required, help |-> r.help], << >>)

-----------------------------------------------------------------------------
(* OptionSpec                                                               *)

(* A variant that keeps an empty cleaned short instead of None. *)
clean_short_keep_empty(v) ==
    IF v # None THEN Some(LStripDash(v[1])) ELSE v

clean_short(v) ==
    IF v # None
    THEN LET cleaned == LStripDash(v[1])
         IN  IF cleaned # << >> THEN Some(cleaned) ELSE None
    ELSE v

validate_short_option(self) ==
    IF self.short # None /\ Len(self.short[1]) # 1
    THEN <<Err("short_option_single_character", <<self.short[1]>>)>>
    ELSE << >>

(* A variant that only tests for None. *)
validate_choice_only_none(self) ==
    IF self.type = "choice" /\ self.choices = None
    THEN <<Err("choice_needs_choices", << >>)>>
    ELSE << >>

validate_choice_type_has_choices(self) ==
    IF self.type = "choice"
       /\ (self.choices = None \/ Len(self.choices[1]) = 0)
    THEN <<Err("choice_needs_choices", << >>)>>
    ELSE << >>

(* The field validators (mode="before") run first; the two model validators *)
(* (mode="after") run in definition order and the first that raises ends    *)
(* the validation.                                                          *)
OptionSpec(r) ==
    LET self == [name |-> sanitize_name(r.name), short |-> clean_short(r.short),
                 type |-> r.type, required |-> r.required,
                 default |-> r.default, help |-> r.help,
                 choices |-> r.choices]
        e1 == validate_short_option(self)
    IN  Outcome(self, IF e1 # << >> THEN e1
                      ELSE validate_choice_type_has_choices(self))

-----------------------------------------------------------------------------
(* CommandSpec                                                              *)

(* [opt.short for opt in options if opt.short is not None] *)
ShortNames(options) ==
    Flatten([i \in 1..Len(options) |->
        IF options[i].short # None THEN <<options[i].short[1]>> ELSE << >>])

(* A variant that does not leave out the options without a short name. *)
ShortNamesWithNone(options) ==
    [i \in 1..Len(options) |-> options[i].short]

CommandShortNames(options) == ShortNames(options)

(* A variant that forgets the argument names. *)
validate_no_duplicates_options_only(self) ==
    LET option_names == [i \in 1..Len(self.options) |-> self.options[i].name]
        short_names == CommandShortNames(self.options)
    IN  IF HasDuplicates(option_names)
        THEN <<Err("duplicate_option_names", duplicates(option_names))>>
        ELSE IF HasDuplicates(short_names)
        THEN <<Err("duplicate_short_option_names", duplicates(short_names))>>
        ELSE << >>

validate_no_duplicates(self) ==
    LET option_names == [i \in 1..Len(self.options) |-> self.options[i].name]
        short_names == CommandShortNames(self.options)
        arg_names == [i \in 1..Len(self.arguments) |-> self.arguments[i].name]
    IN  IF HasDuplicates(option_names)
        THEN <<Err("duplicate_option_names", duplicates(option_names))>>
        ELSE IF HasDuplicates(short_names)
        THEN <<Err("duplicate_short_option_names", duplicates(short_names))>>
        ELSE IF HasDuplicates(arg_names)
        THEN <<Err("duplicate_argument_names", duplicates(arg_names))>>
        ELSE << >>

(* A variant whose model validator runs on the children that passed even    *)
(* when some child failed.                                                  *)
CommandSpec_validator_always(r) ==
    LET args == [i \in 1..Len(r.arguments) |-> ArgumentSpec(r.arguments[i])]
        opts == [i \in 1..Len(r.options) |-> OptionSpec(r.options[i])]
        fieldErrs == ItemErrors(args, "arguments") \o ItemErrors(opts, "options")
        self == [name |-> r.name, description |-> r.description,
                 arguments |-> Flatten([i \in 1..Len(args) |-> args[i].val]),
                 options |-> Flatten([i \in 1..Len(opts) |-> opts[i].val]),
                 examples |-> r.examples]
    IN  Outcome(self, fieldErrs \o validate_no_duplicates(self))

(* The fields are validated first, every line error of every child being    *)
(* collected; the model validator runs only when no field failed.           *)
CommandSpec(r) ==
    LET args == [i \in 1..Len(r.arguments) |-> ArgumentSpec(r.arguments[i])]
        opts == [i \in 1..Len(r.options) |-> OptionSpec(r.options[i])]
        fieldErrs == ItemErrors(args, "arguments") \o ItemErrors(opts, "options")
        self == [name |-> r.name, description |-> r.description,
                 arguments |-> Flatten([i \in 1..Len(args) |-> args[i].val]),
                 options |-> Flatten([i \in 1..Len(opts) |-> opts[i].val]),
                 examples |-> r.examples]
    IN  Outcome(self, IF fieldErrs # << >> THEN fieldErrs
                      ELSE validate_no_duplicates(self))

-----------------------------------------------------------------------------
(* CLISpec                                                                  *)

IsIdentStart(c) == c \in Letters \/ c = "_"

IsIdentChar(c) == c \in Letters \/ c \in Digits \/ c = "_"

(* [a-zA-Z_][a-zA-Z0-9_]* over the whole of s *)
IsIdentifier(s) ==
    /\ s # << >>
    /\ IsIdentStart(s[1])
    /\ \A i \in 2..Len(s) : IsIdentChar(s[i])

(* PYTHON_IDENTIFIER_PATTERN.match(s): "$" matches at the end of the string *)
(* and also just before a newline that ends the string.                     *)
PatternMatches(s) ==
    \/ IsIdentifier(s)
    \/ /\ s # << >>
       /\ s[Len(s)] = NL
       /\ IsIdentifier(SubSeq(s, 1, Len(s) - 1))

(* keyword.kwlist, the entries of up to six characters used here *)
Keywords ==
    { <<"i", "f">>, <<"i", "n">>, <<"i", "s">>, <<"a", "s">>, <<"o", "r">>,
      <<"d", "e", "f">>, <<"f", "o", "r">>, <<"n", "o", "t">>,
      <<"a", "n", "d">>, <<"t", "r", "y">>, <<"d", "e", "l">>,
      <<"e", "l", "s", "e">>, <<"f", "r", "o", "m">>, <<"w", "i", "t", "h">>,
      <<"i", "m", "p", "o", "r", "t">> }

iskeyword(s) == s \in Keywords

GlobalShortNames(options) == ShortNames(options)

(* A variant that does not validate at all. *)
validate_nothing(self) == << >>

validate_cli_spec(self) ==
    LET command_names == [i \in 1..Len(self.commands) |-> self.commands[i].name]
        option_names ==
            [i \in 1..Len(self.global_options) |-> self.global_options[i].name]
        short_names == GlobalShortNames(self.global_options)
    IN  IF self.name = << >>
        THEN <<Err("name_empty", << >>)>>
        ELSE IF ~PatternMatches(self.name)
        THEN <<Err("name_not_identifier", <<self.name>>)>>
        ELSE IF iskeyword(self.name)
        THEN <<Err("name_keyword", <<self.name>>)>>
        ELSE IF HasDuplicates(command_names)
        THEN <<Err("duplicate_command_names", duplicates(command_names))>>
        ELSE IF HasDuplicates(option_names)
        THEN <<Err("duplicate_global_option_names", duplicates(option_names))>>
        ELSE IF HasDuplicates(short_names)
        THEN <<Err("duplicate_global_short_option_names",
                   duplicates(short_names))>>
        ELSE << >>

CLISpec(r) ==
    LET cmds == [i \in 1..Len(r.commands) |-> CommandSpec(r.commands[i])]
        opts == [i \in 1..Len(r.global_options) |->
                    OptionSpec(r.global_options[i])]
        fieldErrs == ItemErrors(cmds, "commands")
                     \o ItemErrors(opts, "global_options")
        self == [name |-> r.name, description |-> r.description,
                 commands |-> Flatten([i \in 1..Len(cmds) |-> cmds[i].val]),
                 global_options |-> Flatten([i \in 1..Len(opts) |-> opts[i].val]),
                 python_version |-> r.python_version,
                 dependencies |-> r.dependencies]
    IN  Outcome(self, IF fieldErrs # << >> THEN fieldErrs
                      ELSE validate_cli_spec(self))

-----------------------------------------------------------------------------
(* SpecGenerator.add_command                                                *)

(* not description or not description.strip() *)
Whitespace == {" ", "\t", "\r", NL}

IsBlank(description) ==
    description = << >>
    \/ \A i \in 1..Len(description) : description[i] \in Whitespace

(* A variant that returns the extended value without constructing a CLISpec. *)
add_command_unvalidated(spec, description, command) ==
    IF IsBlank(description)
    THEN [spec |-> spec, called |-> FALSE,
          out |-> Outcome(spec, <<Err("description_empty", << >>)>>)]
    ELSE [spec |-> spec, called |-> TRUE,
          out |-> Outcome([spec EXCEPT !.commands = @ \o <<command>>], << >>)]

(* The call's effect: the Specification it was given afterwards (spec),     *)
(* whether the command agent was asked (called), and what the call returns  *)
(* or raises (out).  The children are model instances, which the CLISpec    *)
(* constructor takes as they are; its model validator runs on the result.   *)
add_command(spec, description, command) ==
    IF IsBlank(description)
    THEN [spec |-> spec, called |-> FALSE,
          out |-> Outcome(spec, <<Err("description_empty", << >>)>>)]
    ELSE LET new_commands == spec.commands \o <<command>>
             self == [name |-> spec.name, description |-> spec.description,
                      commands |-> new_commands,
                      global_options |-> spec.global_options,
                      python_version |-> spec.python_version,
                      dependencies |-> spec.dependencies]
         IN  [spec |-> spec, called |-> TRUE,
              out |-> Outcome(self, validate_cli_spec(self))]

-----------------------------------------------------------------------------
(* CodeGenerator: the name and type filters and the decorator renderers     *)
(* (generators/code_generator.py).  Generated text is a sequence whose      *)
(* elements are the characters of the values taken from the Specification   *)
(* and the fragments of the f-string around them; a double quote is always  *)
(* an element of its own.                                                   *)

DQ == "\""

BS == "\\"

UpperCase ==
    <<"A", "B", "C", "D", "E", "F", "G", "H", "I", "J", "K", "L", "M",
      "N", "O", "P", "Q", "R", "S", "T", "U", "V", "W", "X", "Y", "Z">>

LowerCase ==
    <<"a", "b", "c", "d", "e", "f", "g", "h", "i", "j", "k", "l", "m",
      "n", "o", "p", "q", "r", "s", "t", "u", "v", "w", "x", "y", "z">>

(* str.lower() on one character *)
Lower(c) ==
    IF \E i \in DOMAIN UpperCase : UpperCase[i] = c
    THEN LowerCase[CHOOSE i \in DOMAIN UpperCase : UpperCase[i] = c]
    ELSE c

(* name.replace("-", "_").replace(" ", "_").lower() *)
_to_func_name(name) ==
    [i \in DOMAIN name |->
        IF name[i] \in {"-", " "} THEN "_" ELSE Lower(name[i])]

_to_param_name(name) ==
    [i \in DOMAIN name |->
        IF name[i] \in {"-", " "} THEN "_" ELSE Lower(name[i])]

type_map ==
    [str |-> "str", int |-> "int", float |-> "float", bool |-> "bool",
     path |-> "Path", choice |-> "str"]

(* isinstance(spec, OptionSpec): of the two entities only OptionSpec has a  *)
(* short name.                                                              *)
IsOptionSpec(spec) == "short" \in DOMAIN spec

(* A variant that wraps every entity that is not required. *)
_python_type_any_optional(spec) ==
    LET base_type == IF spec.type \in DOMAIN type_map
                     THEN type_map[spec.type] ELSE "str"
    IN  IF ~spec.required
        THEN IF spec.type = "bool" THEN <<"bool">>
             ELSE <<base_type, " | None">>
        ELSE <<base_type>>

_python_type_passthrough(spec) ==
    LET base_type == IF spec.type \in DOMAIN type_map
                     THEN type_map[spec.type] ELSE spec.type
    IN  IF IsOptionSpec(spec) /\ ~spec.required
        THEN IF spec.type = "bool" THEN <<"bool">>
             ELSE <<base_type, " | None">>
        ELSE <<base_type>>

_python_type(spec) ==
    LET base_type == IF spec.type \in DOMAIN type_map
                     THEN type_map[spec.type] ELSE "str"
    IN  IF IsOptionSpec(spec) /\ ~spec.required
        THEN IF spec.type = "bool" THEN <<"bool">>
             ELSE <<base_type, " | None">>
        ELSE <<base_type>>

(* f'"{text}"' *)
Quoted(text) == <<DQ>> \o text \o <<DQ>>

(* sep.join(items) *)
RECURSIVE Join(_, _)
Join(items, sep) ==
    IF items = << >> THEN << >>
    ELSE IF Len(items) = 1 THEN items[1]
    ELSE items[1] \o sep \o Join(Tail(items), sep)

(* text.replace('"', '\\"') *)
EscapeQuotes(text) ==
    Flatten([i \in DOMAIN text |->
                IF text[i] = DQ THEN <<BS, DQ>> ELSE <<text[i]>>])

(* The default as the f-string formats it: the text of a str between double *)
(* quotes, the str() of any other value bare.                               *)
DefaultPart(option) ==
    IF option.default[1].kind = "str"
    THEN <<", default=">> \o Quoted(option.default[1].text)
    ELSE <<", default=">> \o option.default[1].text

(* A variant that lists the choices last to first and gives an unknown tag  *)
(* the rule of a path.                                                      *)
TypePart_reversed_choices(option) ==
    CASE option.type = "bool" -> <<<<", is_flag=True">>>>
      [] option.type = "int" -> <<<<", type=int">>>>
      [] option.type = "float" -> <<<<", type=float">>>>
      [] option.type = "choice" ->
            LET cs == IF option.choices = None THEN << >>
                      ELSE option.choices[1]
                choices_str ==
                    Join([i \in DOMAIN cs |-> Quoted(cs[Len(cs) + 1 - i])],
                         <<", ">>)
            IN  <<<<", type=click.Choice([">> \o choices_str \o <<"])">>>>
      [] option.type = "str" -> << >>
      [] OTHER -> <<<<", type=click.Path()">>>>

TypePart(option) ==
    CASE option.type = "bool" -> <<<<", is_flag=True">>>>
      [] option.type = "int" -> <<<<", type=int">>>>
      [] option.type = "float" -> <<<<", type=float">>>>
      [] option.type = "path" -> <<<<", type=click.Path()">>>>
      [] option.type = "choice" ->
            LET cs == IF option.choices = None THEN << >>
                      ELSE option.choices[1]
                choices_str == Join([i \in DOMAIN cs |-> Quoted(cs[i])],
                                    <<", ">>)
            IN  <<<<", type=click.Choice([">> \o choices_str \o <<"])">>>>
      [] OTHER -> << >>

(* A variant that emits the default of a boolean option too. *)
_render_option_bool_default(option) ==
    LET parts ==
            <<<<"@click.option(">>>>
            \o (IF option.short # None /\ option.short[1] # << >>
                THEN <<<<DQ, "-">> \o option.short[1] \o <<DQ, ", ">>>>
                ELSE << >>)
            \o <<<<DQ, "--">> \o option.name \o <<DQ>>>>
            \o TypePart(option)
            \o (IF option.default # None
                THEN <<DefaultPart(option)>> ELSE << >>)
            \o (IF option.required THEN <<<<", required=True">>>> ELSE << >>)
            \o (IF option.help # << >>
                THEN <<<<", help=">> \o Quoted(EscapeQuotes(option.help))>>
                ELSE << >>)
            \o <<<<")">>>>
    IN  Flatten(parts)

_render_option(option) ==
    LET parts ==
            <<<<"@click.option(">>>>
            \o (IF option.short # None /\ option.short[1] # << >>
                THEN <<<<DQ, "-">> \o option.short[1] \o <<DQ, ", ">>>>
                ELSE << >>)
            \o <<<<DQ, "--">> \o option.name \o <<DQ>>>>
            \o TypePart(option)
            \o (IF option.default # None /\ option.type # "bool"
                THEN <<DefaultPart(option)>> ELSE << >>)
            \o (IF option.required THEN <<<<", required=True">>>> ELSE << >>)
            \o (IF option.help # << >>
                THEN <<<<", help=">> \o Quoted(EscapeQuotes(option.help))>>
                ELSE << >>)
            \o <<<<")">>>>
    IN  Flatten(parts)

_render_argument(arg) ==
    LET parts ==
            <<<<"@click.argument(">> \o Quoted(arg.name)>>
            \o (CASE arg.type = "int" -> <<<<", type=int">>>>
                  [] arg.type = "float" -> <<<<", type=float">>>>
                  [] arg.type = "path" ->
                        <<<<", type=click.Path(exists=True)">>>>
                  [] OTHER -> << >>)
            \o (IF ~arg.required THEN <<<<", required=False">>>> ELSE << >>)
            \o <<<<")">>>>
    IN  Flatten(parts)

-----------------------------------------------------------------------------
(* CodeGenerator: the content of the four generated files.                  *)

_has_path_types(spec) ==
    \/ \E i \in DOMAIN spec.global_options :
          spec.global_options[i].type = "path"
    \/ \E i \in DOMAIN spec.commands :
          \/ \E j \in DOMAIN spec.commands[i].arguments :
                spec.commands[i].arguments[j].type = "path"
          \/ \E j \in DOMAIN spec.commands[i].options :
                spec.commands[i].options[j].type = "path"

(* One command of the entry module, as the template cli.py.j2 writes it:    *)
(* the decorators of its arguments and options in order, then one function  *)
(* named by to_func_name with one typed parameter per argument and option.  *)
CommandUnit(cmd) ==
    LET params == [i \in DOMAIN cmd.arguments |->
                      _to_param_name(cmd.arguments[i].name) \o <<": ">>
                      \o _python_type(cmd.arguments[i])]
                  \o [i \in DOMAIN cmd.options |->
                         _to_param_name(cmd.options[i].name) \o <<": ">>
                         \o _python_type(cmd.options[i])]
    IN  <<"@cli.command()", NL>>
        \o Flatten([i \in DOMAIN cmd.arguments |->
                       _render_argument(cmd.arguments[i]) \o <<NL>>])
        \o Flatten([i \in DOMAIN cmd.options |->
                       _render_option(cmd.options[i]) \o <<NL>>])
        \o <<"def ">> \o _to_func_name(cmd.name) \o <<"(">>
        \o Join(params, <<", ">>) \o <<") -> None:", NL, "    ">>
        \o <<DQ, DQ, DQ>> \o cmd.description
        \o Flatten([i \in DOMAIN cmd.examples |->
                       <<NL, "        ">> \o cmd.examples[i]])
        \o <<DQ, DQ, DQ, NL, "    click.echo(">>
        \o Quoted(cmd.name \o <<" command called">>) \o <<")", NL>>

(* The entry module: the dispatcher, bound once to the global options, and  *)
(* one unit per command in the order of the Specification.                  *)
_generate_cli(spec) ==
    <<DQ, DQ, DQ>> \o spec.description \o <<DQ, DQ, DQ, NL, "import click", NL>>
    \o (IF _has_path_types(spec)
        THEN <<"from pathlib import Path", NL>> ELSE << >>)
    \o <<"@click.group()", NL, "@click.version_option()", NL>>
    \o Flatten([i \in DOMAIN spec.global_options |->
                   _render_option(spec.global_options[i]) \o <<NL>>])
    \o <<"def cli() -> None:", NL>>
    \o Flatten([i \in DOMAIN spec.commands |-> CommandUnit(spec.commands[i])])
    \o <<"def main() -> None:", NL, "    cli()", NL>>

_generate_init(spec) ==
    <<DQ, DQ, DQ>> \o spec.description
    \o <<DQ, DQ, DQ, NL, NL, "__version__ = ", DQ, "0.1.0", DQ, NL>>

(* A variant that lists every dependency once. *)
_generate_pyproject_unique(spec) ==
    LET all == <<<<"click>=8.1">>>> \o spec.dependencies
        deps == SelectSeq([i \in DOMAIN all |->
                              IF \E j \in 1..(i - 1) : all[j] = all[i]
                              THEN << >> ELSE all[i]],
                          LAMBDA d : d # << >>)
        deps_str == Join([i \in DOMAIN deps |-> Quoted(deps[i])],
                         <<",\n    ">>)
    IN  <<"[project]\nname = ">> \o Quoted(spec.name)
        \o <<"\nversion = ", DQ, "0.1.0", DQ, "\ndescription = ">>
        \o Quoted(spec.description)
        \o <<"\nrequires-python = ", DQ, ">=">> \o spec.python_version
        \o <<DQ, "\ndependencies = [\n    ">> \o deps_str
        \o <<",\n]\n\n[project.scripts]\n">> \o spec.name \o <<" = ", DQ>>
        \o spec.name \o <<".cli:main", DQ, "\n\n[build-system]\nrequires = [">>
        \o <<DQ, "setuptools>=61.0", DQ, "]\nbuild-backend = ">>
        \o <<DQ, "setuptools.build_meta", DQ, NL>>

_generate_pyproject(spec) ==
    LET deps == <<<<"click>=8.1">>>> \o spec.dependencies
        deps_str == Join([i \in DOMAIN deps |-> Quoted(deps[i])],
                         <<",\n    ">>)
    IN  <<"[project]\nname = ">> \o Quoted(spec.name)
        \o <<"\nversion = ", DQ, "0.1.0", DQ, "\ndescription = ">>
        \o Quoted(spec.description)
        \o <<"\nrequires-python = ", DQ, ">=">> \o spec.python_version
        \o <<DQ, "\ndependencies = [\n    ">> \o deps_str
        \o <<",\n]\n\n[project.scripts]\n">> \o spec.name \o <<" = ", DQ>>
        \o spec.name \o <<".cli:main", DQ, "\n\n[build-system]\nrequires = [">>
        \o <<DQ, "setuptools>=61.0", DQ, "]\nbuild-backend = ">>
        \o <<DQ, "setuptools.build_meta", DQ, NL>>

(* A variant whose usage block holds the examples of a command that has     *)
(* examples.                                                                *)
ReadmeSectionExamples(spec, cmd) ==
    <<"### ">> \o cmd.name \o <<"\n\n">> \o cmd.description \o <<"\n\n">>
    \o <<"'''bash\n">>
    \o (IF cmd.examples # << >>
        THEN Flatten([i \in DOMAIN cmd.examples |->
                         cmd.examples[i] \o <<NL>>]) \o <<"'''\n\n">>
        ELSE spec.name \o <<" ">> \o cmd.name \o <<" --help\n'''\n\n">>)

(* The section of one command: its name, its description and a usage block. *)
(* The backquote of the Markdown fences is written as an apostrophe.        *)
ReadmeSection(spec, cmd) ==
    <<"### ">> \o cmd.name \o <<"\n\n">> \o cmd.description \o <<"\n\n">>
    \o <<"'''bash\n">> \o spec.name \o <<" ">> \o cmd.name
    \o <<" --help\n'''\n\n">>

_generate_readme(spec) ==
    <<"# ">> \o spec.name \o <<"\n\n">> \o spec.description
    \o <<"\n\n## Installation\n\n'''bash\npip install ">> \o spec.name
    \o <<"\n'''\n\n## Usage\n\n'''bash\n">> \o spec.name
    \o <<" --help\n'''\n">>
    \o (IF spec.commands # << >>
        THEN <<"\n## Commands\n\n">>
             \o Flatten([i \in DOMAIN spec.commands |->
                            ReadmeSection(spec, spec.commands[i])])
        ELSE << >>)
    \o (IF spec.global_options # << >>
        THEN <<"## Global Options\n\n">>
             \o Flatten([i \in DOMAIN spec.global_options |->
                    LET opt == spec.global_options[i]
                        opt_str == (IF opt.short # None /\ opt.short[1] # << >>
                                    THEN <<"-">> \o opt.short[1] \o <<", ">>
                                    ELSE << >>)
                                   \o <<"--">> \o opt.name
                    IN  <<"- '">> \o opt_str \o <<"': ">> \o opt.help \o <<NL>>])
        ELSE << >>)

-----------------------------------------------------------------------------
(* Paths and the filesystem.  A path is the sequence of its components, as  *)
(* pathlib's parts: the first component of an absolute path is the root.    *)
(* The filesystem is the set of its directories and the content of its      *)
(* files; the empty path is the working directory.                          *)

ROOT == <<"/">>

is_absolute(p) == p # << >> /\ p[1] = ROOT

(* Path.mkdir(parents=..., exist_ok=True) in an environment that grants or  *)
(* refuses it (env): the result tells whether it returned and the           *)
(* filesystem it leaves.                                                    *)
mkdir(fs, p, parents, env) ==
    LET above == SubSeq(p, 1, Len(p) - 1)
        chain == {SubSeq(p, 1, k) : k \in 1..Len(p)}
    IN  IF \/ env # "ok"
           \/ \E q \in chain : q \in DOMAIN fs.files
           \/ ~parents /\ p # << >> /\ above \notin fs.dirs
        THEN [ok |-> FALSE, fs |-> fs]
        ELSE [ok |-> TRUE, fs |-> [fs EXCEPT !.dirs = @ \cup chain]]

(* Path.write_text(content): opening the file truncates it, so a write that *)
(* fails after the open (env = "full") leaves the file empty, and one that  *)
(* fails at the open (env = "denied") leaves the filesystem as it was.      *)
(* First a variant that leaves a file that exists as it is.                 *)
write_text_keep_existing(fs, p, content, env) ==
    LET put(c) == [fs EXCEPT !.files =
                      [q \in DOMAIN fs.files \cup {p} |->
                          IF q = p THEN c ELSE fs.files[q]]]
    IN  IF \/ env = "denied"
           \/ p \in fs.dirs
           \/ SubSeq(p, 1, Len(p) - 1) \notin fs.dirs
        THEN [ok |-> FALSE, fs |-> fs]
        ELSE IF env = "full" THEN [ok |-> FALSE, fs |-> put(<< >>)]
        ELSE IF p \in DOMAIN fs.files THEN [ok |-> TRUE, fs |-> fs]
        ELSE [ok |-> TRUE, fs |-> put(content)]

write_text(fs, p, content, env) ==
    LET put(c) == [fs EXCEPT !.files =
                      [q \in DOMAIN fs.files \cup {p} |->
                          IF q = p THEN c ELSE fs.files[q]]]
    IN  IF \/ env = "denied"
           \/ p \in fs.dirs
           \/ SubSeq(p, 1, Len(p) - 1) \notin fs.dirs
        THEN [ok |-> FALSE, fs |-> fs]
        ELSE IF env = "full" THEN [ok |-> FALSE, fs |-> put(<< >>)]
        ELSE [ok |-> TRUE, fs |-> put(content)]

-----------------------------------------------------------------------------
(* CodeGenerator.generate: the two directories, then the four files, one    *)
(* after another.  The call's state is its position (pc, and k among the    *)
(* files), the output directory it was given, the result it has built so    *)
(* far, and the number of calls made (n).                                   *)

Kinds == <<"cli", "init", "pyproject", "readme">>

ArtifactPath(output_dir, spec, kind) ==
    LET package_dir == output_dir \o <<spec.name>>
    IN  CASE kind = "cli" -> package_dir \o <<<<"cli.py">>>>
          [] kind = "init" -> package_dir \o <<<<"__init__.py">>>>
          [] kind = "pyproject" -> output_dir \o <<<<"pyproject.toml">>>>
          [] kind = "readme" -> output_dir \o <<<<"README.md">>>>

ArtifactContent(spec, kind) ==
    CASE kind = "cli" -> _generate_cli(spec)
      [] kind = "init" -> _generate_init(spec)
      [] kind = "pyproject" -> _generate_pyproject(spec)
      [] kind = "readme" -> _generate_readme(spec)

Idle ==
    [pc |-> "idle", output_dir |-> << >>, k |-> 0, result |-> << >>, n |-> 0,
     past |-> << >>]

Raised(g) == [g EXCEPT !.pc = "raised"]

(* A variant that removes the files it has written when a write fails. *)
generate_step_rollback(g, fs, spec, env) ==
    LET kind == Kinds[g.k]
        path == ArtifactPath(g.output_dir, spec, kind)
        w == write_text(fs, path, ArtifactContent(spec, kind), env)
        written == {g.result[i].path : i \in DOMAIN g.result}
    IN  IF w.ok
        THEN [fs |-> w.fs,
              gen |-> [g EXCEPT
                          !.result = Append(@, [kind |-> kind, path |-> path]),
                          !.k = IF g.k = Len(Kinds) THEN 0 ELSE g.k + 1,
                          !.pc = IF g.k = Len(Kinds) THEN "returned"
                                 ELSE "write"]]
        ELSE [fs |-> [w.fs EXCEPT !.files =
                         [q \in DOMAIN w.fs.files \ written |-> w.fs.files[q]]],
              gen |-> Raised(g)]

(* A variant that writes the path of the file after its content. *)
generate_step_stamped(g, fs, spec, env) ==
    LET kind == Kinds[g.k]
        path == ArtifactPath(g.output_dir, spec, kind)
        w == write_text(fs, path,
                        ArtifactContent(spec, kind) \o Flatten(path), env)
    IN  IF w.ok
        THEN [fs |-> w.fs,
              gen |-> [g EXCEPT
                          !.result = Append(@, [kind |-> kind, path |-> path]),
                          !.k = IF g.k = Len(Kinds) THEN 0 ELSE g.k + 1,
                          !.pc = IF g.k = Len(Kinds) THEN "returned"
                                 ELSE "write"]]
        ELSE [fs |-> w.fs, gen |-> Raised(g)]

(* A variant that puts the manifest and the documentation in the package    *)
(* directory.                                                               *)
generate_step_nested(g, fs, spec, env) ==
    LET kind == Kinds[g.k]
        path == g.output_dir \o <<spec.name>>
                \o <<ArtifactPath(g.output_dir, spec, kind)[
                        Len(ArtifactPath(g.output_dir, spec, kind))]>>
        w == write_text(fs, path, ArtifactContent(spec, kind), env)
    IN  IF w.ok
        THEN [fs |-> w.fs,
              gen |-> [g EXCEPT
                          !.result = Append(@, [kind |-> kind, path |-> path]),
                          !.k = IF g.k = Len(Kinds) THEN 0 ELSE g.k + 1,
                          !.pc = IF g.k = Len(Kinds) THEN "returned"
                                 ELSE "write"]]
        ELSE [fs |-> w.fs, gen |-> Raised(g)]

(* One file of generate: its content is rendered and written to its path,   *)
(* and the path is recorded in the result; an error of the write leaves the *)
(* call.                                                                    *)
generate_step(g, fs, spec, env) ==
    LET kind == Kinds[g.k]
        path == ArtifactPath(g.output_dir, spec, kind)
        w == write_text(fs, path, ArtifactContent(spec, kind), env)
    IN  IF w.ok
        THEN [fs |-> w.fs,
              gen |-> [g EXCEPT
                          !.result = Append(@, [kind |-> kind, path |-> path]),
                          !.k = IF g.k = Len(Kinds) THEN 0 ELSE g.k + 1,
                          !.pc = IF g.k = Len(Kinds) THEN "returned"
                                 ELSE "write"]]
        ELSE [fs |-> w.fs, gen |-> Raised(g)]

-----------------------------------------------------------------------------
(* build_cmd (cli.py) up to its call of generate: json.loads and            *)
(* CLISpec.model_validate on the text of the file.  A document that is not  *)
(* JSON and a document that fails validation are reported and end the       *)
(* command with sys.exit(1); otherwise the Specification goes to generate.  *)

(* A variant that ends with status 0 when validation fails. *)
build_load_exit0(doc) ==
    IF ~doc.json
    THEN [spec |-> None, out |-> None,
          exit |-> Some([code |-> 1, error |-> "json"])]
    ELSE LET r == CLISpec(doc.data)
         IN  IF ~r.ok
             THEN [spec |-> None, out |-> Some(r),
                   exit |-> Some([code |-> 0, error |-> "validation"])]
             ELSE [spec |-> r.val, out |-> Some(r), exit |-> None]

build_load(doc) ==
    IF ~doc.json
    THEN [spec |-> None, out |-> None,
          exit |-> Some([code |-> 1, error |-> "json"])]
    ELSE LET r == CLISpec(doc.data)
         IN  IF ~r.ok
             THEN [spec |-> None, out |-> Some(r),
                   exit |-> Some([code |-> 1, error |-> "validation"])]
             ELSE [spec |-> r.val, out |-> Some(r), exit |-> None]

-----------------------------------------------------------------------------
(* SpecGenerator.generate and the generate command.  The reply is what the  *)
(* agent's run gives once it is asked: a CLISpec instance, or None when the *)
(* run raises.                                                              *)

(* A variant that asks the agent before it looks at the description. *)
generate_asks_first(description, reply) ==
    [called |-> TRUE,
     out |-> IF IsBlank(description)
             THEN Outcome(<< >>, <<Err("description_empty", << >>)>>)
             ELSE IF reply = None
             THEN Outcome(<< >>, <<Err("agent_error", << >>)>>)
             ELSE Outcome(reply[1], << >>)]

generate(description, reply) ==
    IF IsBlank(description)
    THEN [called |-> FALSE,
          out |-> Outcome(<< >>, <<Err("description_empty", << >>)>>)]
    ELSE [called |-> TRUE,
          out |-> IF reply = None
                  THEN Outcome(<< >>, <<Err("agent_error", << >>)>>)
                  ELSE Outcome(reply[1], << >>)]

(* A variant that goes on to the code generator on a dry run too. *)
generate_cmd_no_dry_run(doc) ==
    LET r == generate(doc.description, doc.reply)
    IN  [called |-> r.called, out |-> r.out,
         exit |-> IF ~r.out.ok
                  THEN Some([code |-> 1, error |-> "specification"])
                  ELSE None]

(* The generate command up to its call of CodeGenerator.generate: whether   *)
(* the agent was asked, what SpecGenerator.generate gave, and the exit of   *)
(* the command when it ends before that call (None when it goes on).        *)
generate_cmd(doc) ==
    LET r == generate(doc.description, doc.reply)
    IN  [called |-> r.called, out |-> r.out,
         exit |-> IF ~r.out.ok
                  THEN Some([code |-> 1, error |-> "specification"])
                  ELSE IF doc.dry_run
                  THEN Some([code |-> 0, error |-> "none"])
                  ELSE None]

-----------------------------------------------------------------------------
(* Persistence: spec.model_dump_json(indent=2) written to a file, and       *)
(* json.loads of the file's text followed by CLISpec.model_validate.  A     *)
(* JSON document is modelled by its tree, each scalar being the text of its *)
(* JSON token.                                                              *)

Inf == <<"i", "n", "f">>

(* The token of a string: quotes, with the quote, the backslash and the     *)
(* newline escaped. *)
dump_str(text) ==
    <<DQ>>
    \o Flatten([i \in DOMAIN text |->
          CASE text[i] = DQ -> <<BS, DQ>>
            [] text[i] = BS -> <<BS, BS>>
            [] text[i] = NL -> <<BS, "n">>
            [] OTHER -> <<text[i]>>])
    \o <<DQ>>

RECURSIVE Unescape(_)
Unescape(body) ==
    IF body = << >> THEN << >>
    ELSE IF Head(body) = BS /\ Len(body) >= 2
         THEN <<IF body[2] = "n" THEN NL ELSE body[2]>>
              \o Unescape(Tail(Tail(body)))
         ELSE <<Head(body)>> \o Unescape(Tail(body))

load_str(token) == Unescape(SubSeq(token, 2, Len(token) - 1))

dump_bool(b) == IF b THEN <<"true">> ELSE <<"false">>

load_bool(token) == token = <<"true">>

(* A value of the field default, declared Any: the serializer goes by the   *)
(* value's own type, and writes null for a float that is not finite.        *)
dump_default(d) ==
    IF d = None THEN <<"null">>
    ELSE CASE d[1].kind = "str" -> dump_str(d[1].text)
           [] d[1].kind = "float" /\ d[1].text = Inf -> <<"null">>
           [] OTHER -> d[1].text

load_default(token) ==
    IF token = <<"null">> THEN None
    ELSE IF Head(token) = DQ
         THEN Some([kind |-> "str", text |-> load_str(token)])
         ELSE IF "." \in Range(token)
              THEN Some([kind |-> "float", text |-> token])
              ELSE Some([kind |-> "int", text |-> token])

dump_argument(a) ==
    [name |-> dump_str(a.name), type |-> dump_str(<<a.type>>),
     required |-> dump_bool(a.required), help |-> dump_str(a.help)]

load_argument(j) ==
    [name |-> load_str(j.name), type |-> load_str(j.type)[1],
     required |-> load_bool(j.required), help |-> load_str(j.help)]

dump_option(o) ==
    [name |-> dump_str(o.name),
     short |-> IF o.short = None THEN <<"null">> ELSE dump_str(o.short[1]),
     type |-> dump_str(<<o.type>>), required |-> dump_bool(o.required),
     default |-> dump_default(o.default), help |-> dump_str(o.help),
     choices |-> IF o.choices = None THEN None
                 ELSE Some([i \in DOMAIN o.choices[1] |->
                               dump_str(o.choices[1][i])])]

load_option(j) ==
    [name |-> load_str(j.name),
     short |-> IF j.short = <<"null">> THEN None ELSE Some(load_str(j.short)),
     type |-> load_str(j.type)[1], required |-> load_bool(j.required),
     default |-> load_default(j.default), help |-> load_str(j.help),
     choices |-> IF j.choices = None THEN None
                 ELSE Some([i \in DOMAIN j.choices[1] |->
                               load_str(j.choices[1][i])])]

dump_command(c) ==
    [name |-> dump_str(c.name), description |-> dump_str(c.description),
     arguments |-> [i \in DOMAIN c.arguments |-> dump_argument(c.arguments[i])],
     options |-> [i \in DOMAIN c.options |-> dump_option(c.options[i])],
     examples |-> [i \in DOMAIN c.examples |-> dump_str(c.examples[i])]]

load_command(j) ==
    [name |-> load_str(j.name), description |-> load_str(j.description),
     arguments |-> [i \in DOMAIN j.arguments |-> load_argument(j.arguments[i])],
     options |-> [i \in DOMAIN j.options |-> load_option(j.options[i])],
     examples |-> [i \in DOMAIN j.examples |-> load_str(j.examples[i])]]

model_dump_json(spec) ==
    [name |-> dump_str(spec.name), description |-> dump_str(spec.description),
     commands |-> [i \in DOMAIN spec.commands |->
                      dump_command(spec.commands[i])],
     global_options |-> [i \in DOMAIN spec.global_options |->
                            dump_option(spec.global_options[i])],
     python_version |-> dump_str(spec.python_version),
     dependencies |-> [i \in DOMAIN spec.dependencies |->
                          dump_str(spec.dependencies[i])]]

json_loads(j) ==
    [name |-> load_str(j.name), description |-> load_str(j.description),
     commands |-> [i \in DOMAIN j.commands |-> load_command(j.commands[i])],
     global_options |-> [i \in DOMAIN j.global_options |->
                            load_option(j.global_options[i])],
     python_version |-> load_str(j.python_version),
     dependencies |-> [i \in DOMAIN j.dependencies |->
                          load_str(j.dependencies[i])]]

-----------------------------------------------------------------------------
(* Candidate documents.                                                     *)

NameChars == {"-", "o", "p"}

Types == {"str", "int", "float", "bool", "path", "choice", "json"}

ChoiceValues == {<<"x">>, <<"y">>}

Defaults ==
    {None, Some([kind |-> "str", text |-> <<"x">>]),
     Some([kind |-> "int", text |-> <<"1">>])}

(* Text that holds the characters a string literal gives a meaning to. *)
TextChars == {"h", DQ, BS, NL}

Texts == SeqsUpTo(TextChars, MaxTextLen)

RawOption(n, s, t, ch) ==
    [name |-> n, short |-> s, type |-> t, required |-> FALSE,
     default |-> None, help |-> << >>, choices |-> ch]

RawArgument(n, t) ==
    [name |-> n, type |-> t, required |-> TRUE, help |-> << >>]

RawCommand(n, a, o) ==
    [name |-> n, description |-> <<"d">>, arguments |-> a, options |-> o,
     examples |-> << >>]

RawCLI(n, c, g) ==
    [name |-> n, description |-> <<"d">>, commands |-> c,
     global_options |-> g, python_version |-> <<"3", ".", "1", "1">>,
     dependencies |-> << >>]

RawArguments ==
    {[name |-> n, type |-> t, required |-> r, help |-> << >>] :
        n \in SeqsUpTo(NameChars, MaxNameLen),
        t \in {"str", "int", "path", "json"}, r \in BOOLEAN}

(* Options that vary the name and the short name, options that vary the     *)
(* type, the choices, the default, the required flag and the help text, and *)
(* options that vary the text of the default, the help and the choice.      *)
RawOptions ==
    {RawOption(n, s, "str", None) :
        n \in SeqsUpTo(NameChars, MaxNameLen),
        s \in {None} \cup {Some(x) : x \in SeqsUpTo(NameChars, MaxNameLen)}}
    \cup
    {[name |-> <<"o">>, short |-> s, type |-> t, required |-> r,
      default |-> d, help |-> h, choices |-> ch] :
        s \in {None, Some(<<"o">>), Some(<<"o", "p">>)},
        t \in Types, r \in BOOLEAN, d \in Defaults,
        h \in {<< >>, <<"h">>},
        ch \in {None} \cup {Some(x) : x \in SeqsUpTo(ChoiceValues, MaxChoices)}}
    \cup
    {[name |-> <<"o">>, short |-> None, type |-> "str", required |-> FALSE,
      default |-> d, help |-> h, choices |-> None] :
        d \in {None} \cup {Some([kind |-> "str", text |-> t]) : t \in Texts},
        h \in Texts}
    \cup
    {RawOption(<<"o">>, None, "choice", Some(<<t>>)) : t \in Texts}

OptO == RawOption(<<"o">>, Some(<<"o">>), "str", None)

OptDashO == RawOption(<<"-", "-", "o">>, None, "bool", None)

OptP == RawOption(<<"p">>, Some(<<"-", "o">>), "str", None)

OptQ == RawOption(<<"q">>, None, "choice", Some(<<<<"x">>, <<"y">>>>))

OptBadShort == RawOption(<<"r">>, Some(<<"o", "p">>), "str", None)

OptionPool == {OptO, OptDashO, OptP, OptQ, OptBadShort}

ArgumentPool ==
    {RawArgument(<<"x">>, "str"), RawArgument(<<"-", "x">>, "path"),
     RawArgument(<<"y">>, "int")}

(* Two options whose short name is a dash and the empty string. *)
OptA == RawOption(<<"a">>, Some(<<"-">>), "str", None)

OptB == RawOption(<<"b">>, Some(<< >>), "str", None)

(* Commands over the pools, and commands that repeat two option names in    *)
(* every order.                                                             *)
RawCommands ==
    {RawCommand(<<"a">>, a, o) :
        a \in SeqsUpTo(ArgumentPool, MaxArguments),
        o \in SeqsUpTo(OptionPool, MaxOptions)}
    \cup
    {RawCommand(<<"a">>, << >>, o) : o \in SeqsUpTo({OptA, OptB}, MaxSiblings)}

CommandPool ==
    {RawCommand(<<"a">>, << >>, << >>),
     RawCommand(<<"a">>, <<RawArgument(<<"x">>, "str")>>, <<OptDashO>>),
     RawCommand(<<"b">>, << >>, <<OptO, OptQ>>),
     RawCommand(<<"c">>, << >>, <<OptBadShort>>)}

GlobalPool == {OptO, OptDashO, OptP, OptQ}

CliNameChars == {"i", "f", "1", "_", "-", " ", NL}

(* Specifications that vary the name, and Specifications that vary the      *)
(* commands and the global options under a valid and an invalid name.       *)
RawCLIs ==
    {RawCLI(n, c, << >>) :
        n \in SeqsUpTo(CliNameChars, MaxNameLen),
        c \in {<< >>, <<RawCommand(<<"a">>, << >>, << >>),
                       RawCommand(<<"a">>, << >>, << >>)>>}}
    \cup
    {RawCLI(n, c, g) :
        n \in {<<"f", "i">>, <<"i", "f">>},
        c \in SeqsUpTo(CommandPool, MaxCommands),
        g \in SeqsUpTo(GlobalPool, MaxGlobalOptions)}

(* What the command agent may return: any CommandSpec instance. *)
AgentCommands ==
    {CommandSpec(r).val[1] : r \in {x \in CommandPool : CommandSpec(x).ok}}

Descriptions == {<< >>, <<" ">>, <<"n", "e", "w">>}

(* Specifications to generate from: they vary the dependencies, the         *)
(* commands and their names, the examples of a command, the description,    *)
(* the global options, and the type tag of an argument and of an option.    *)
DepPool == {<<"x">>, <<"y">>}

ExamplePool == {<<"e">>, <<"g">>}

OptPath == RawOption(<<"w">>, Some(<<"w">>), "path", None)

EmitCommandPool ==
    {RawCommand(<<"a", "-", "b">>, <<RawArgument(<<"x">>, "str")>>, <<OptO>>),
     [RawCommand(<<"a", "_", "b">>, << >>, << >>)
        EXCEPT !.examples = <<<<"e">>>>],
     RawCommand(<<"A", " ", "b">>, <<RawArgument(<<"y">>, "path")>>, << >>)}

EmitCLIs ==
    {[RawCLI(<<"f", "i">>, << >>, << >>) EXCEPT !.dependencies = d] :
        d \in SeqsUpTo(DepPool, MaxDependencies)}
    \cup
    {RawCLI(<<"f", "i">>, c, << >>) :
        c \in SeqsUpTo(EmitCommandPool, MaxEmitCommands)}
    \cup
    {RawCLI(<<"f", "i">>,
            <<[RawCommand(<<"c">>, << >>, << >>) EXCEPT !.examples = e]>>,
            << >>) :
        e \in SeqsUpTo(ExamplePool, MaxExamples)}
    \cup
    {[RawCLI(<<"f", "i">>, << >>, << >>) EXCEPT !.description = t] :
        t \in SeqsUpTo({"d", DQ, BS}, MaxTextLen)}
    \cup
    {RawCLI(<<"f", "i">>, << >>, g) :
        g \in SeqsUpTo({OptO, OptPath}, MaxGlobalOptions)}
    \cup
    {RawCLI(<<"f", "i">>,
            <<RawCommand(<<"c">>, <<RawArgument(<<"x">>, t)>>,
                         <<RawOption(<<"o">>, None, t, None)>>)>>,
            <<RawOption(<<"p">>, None, t, None)>>) :
        t \in {"json", "int"}}

(* The documents a specification file may hold: text that is not JSON, and  *)
(* JSON documents that pass or fail the validation of CLISpec.              *)
BuildDocs ==
    {[json |-> FALSE, data |-> << >>]}
    \cup
    {[json |-> TRUE, data |-> RawCLI(n, << >>, g)] :
        n \in {<< >>, <<"f", "i">>, <<"i", "f">>, <<"f", NL>>},
        g \in SeqsUpTo(GlobalPool, MaxGlobalOptions)}

(* Specifications to save and load: they vary the default and the help of   *)
(* an option and the text, the arguments, the options and the examples of   *)
(* a command.                                                               *)
PersistDefaults ==
    {None, Some([kind |-> "int", text |-> <<"1">>]),
     Some([kind |-> "float", text |-> <<"1", ".", "5">>]),
     Some([kind |-> "float", text |-> Inf])}
    \cup {Some([kind |-> "str", text |-> t]) : t \in Texts}

PersistCLIs ==
    {RawCLI(<<"f", "i">>, << >>, <<[OptO EXCEPT !.default = d]>>) :
        d \in PersistDefaults}
    \cup
    {RawCLI(<<"f", "i">>, << >>, <<[OptDashO EXCEPT !.help = h]>>) :
        h \in Texts}
    \cup
    {[RawCLI(<<"f", "i">>,
             <<[RawCommand(<<"c">>, <<RawArgument(<<"x">>, "path")>>,
                           <<OptQ, OptA>>)
                  EXCEPT !.examples = <<t>>, !.description = t]>>,
             << >>) EXCEPT !.dependencies = <<t>>] :
        t \in Texts}

(* Specifications of one name that differ in every artifact. *)
ReemitCLIs ==
    {[RawCLI(<<"f", "i">>,
             <<[RawCommand(<<"c">>, << >>, << >>) EXCEPT !.examples = e]>>,
             << >>) EXCEPT !.dependencies = <<<<"x">>>>] :
        e \in SeqsUpTo(ExamplePool, 1)}
    \cup
    {[RawCLI(<<"f", "i">>, << >>, <<OptO>>) EXCEPT !.description = <<"e">>]}

(* What the agent may return: a CLISpec instance. *)
AgentSpecs ==
    {CLISpec(r).val[1] :
        r \in {x \in {RawCLI(<<"f", "i">>, c, << >>) :
                         c \in SeqsUpTo(CommandPool, 1)} : CLISpec(x).ok}}

(* Invocations of the generate command: the description, the --dry-run     *)
(* flag and the agent's reply.                                              *)
GenerateCalls ==
    [description : Descriptions \cup {<<"\t", NL>>, <<" ", "n">>},
     dry_run : BOOLEAN,
     reply : {None} \cup {Some(x) : x \in AgentSpecs}]

(* Output directories: one that exists, one whose parent is missing too,    *)
(* and a relative one.                                                      *)
OutDirs ==
    {<<ROOT, <<"t">>>>, <<ROOT, <<"t">>, <<"n">>, <<"b">>>>,
     <<<<"generated">>>>}

InitFS == [dirs |-> {<< >>, <<ROOT>>, <<ROOT, <<"t">>>>}, files |-> << >>]

Environments == {"ok", "denied", "full"}

-----------------------------------------------------------------------------
(* The state machine: a candidate document is drawn, the entity is          *)
(* constructed from it, and the result is validated again, rendered by the  *)
(* generator's filters or, for a Specification, extended by add_command or  *)
(* given to CodeGenerator.generate; the build command loads a document from *)
(* a file and generates from it.                                            *)

Init ==
    /\ pc = "input"
    /\ res = None
    /\ held = None
    /\ again = None
    /\ added = None
    /\ asked = 0
    /\ rendered = None
    /\ disk = InitFS
    /\ gen = Idle
    /\ exit = None
    /\ \/ level = "argument" /\ raw \in RawArguments
       \/ level = "option" /\ raw \in RawOptions
       \/ level = "command" /\ raw \in RawCommands
       \/ level = "cli" /\ raw \in RawCLIs
       \/ level = "emit" /\ raw \in EmitCLIs
       \/ level = "build" /\ raw \in BuildDocs
       \/ level = "persist" /\ raw \in PersistCLIs
       \/ level = "generate" /\ raw \in GenerateCalls
       \/ level = "reemit" /\ raw \in ReemitCLIs

Validate(lv, doc) ==
    CASE lv = "argument" -> ArgumentSpec(doc)
      [] lv = "option" -> OptionSpec(doc)
      [] lv = "command" -> CommandSpec(doc)
      [] lv \in {"cli", "emit", "build", "persist", "reemit"} -> CLISpec(doc)

NewArgument ==
    /\ pc = "input" /\ level = "argument"
    /\ res' = Some(ArgumentSpec(raw))
    /\ pc' = "built"
    /\ UNCHANGED <<level, raw, held, again, added, asked>>
    /\ UNCHANGED emitVars

NewOption ==
    /\ pc = "input" /\ level = "option"
    /\ res' = Some(OptionSpec(raw))
    /\ pc' = "built"
    /\ UNCHANGED <<level, raw, held, again, added, asked>>
    /\ UNCHANGED emitVars

NewCommand ==
    /\ pc = "input" /\ level = "command"
    /\ res' = Some(CommandSpec(raw))
    /\ pc' = "built"
    /\ UNCHANGED <<level, raw, held, again, added, asked>>
    /\ UNCHANGED emitVars

NewCLISpec ==
    /\ pc = "input" /\ level \in {"cli", "emit", "persist", "reemit"}
    /\ res' = Some(CLISpec(raw))
    /\ held' = CLISpec(raw).val
    /\ pc' = "built"
    /\ UNCHANGED <<level, raw, again, added, asked>>
    /\ UNCHANGED emitVars

(* The validated value is serialized (model_dump) and validated again. *)
Revalidate ==
    /\ pc = "built" /\ res[1].ok
    /\ again' = Some(Validate(level, res[1].val[1]))
    /\ pc' = "revalidated"
    /\ UNCHANGED <<level, raw, res, held, added, asked>>
    /\ UNCHANGED emitVars

AddCommand ==
    /\ pc = "built" /\ level = "cli" /\ held # None
    /\ \E description \in Descriptions, command \in AgentCommands :
          LET r == add_command(held[1], description, command)
          IN  /\ held' = Some(r.spec)
              /\ added' = Some([description |-> description,
                                command |-> IF r.called THEN Some(command)
                                            ELSE None,
                                out |-> r.out])
              /\ asked' = IF r.called THEN asked + 1 ELSE asked
    /\ pc' = "added"
    /\ UNCHANGED <<level, raw, res, again>>
    /\ UNCHANGED emitVars

(* The Specification is saved as the spec command saves it and loaded from  *)
(* the file as the build command loads it.                                  *)
SaveAndLoad ==
    /\ pc = "built" /\ level = "persist" /\ res[1].ok
    /\ again' = build_load([json |-> TRUE,
                            data |-> json_loads(model_dump_json(held[1]))]).out
    /\ pc' = "reloaded"
    /\ UNCHANGED <<level, raw, res, held, added, asked>>
    /\ UNCHANGED emitVars

(* The template's use of the filters and renderers on one argument or      *)
(* option: its decorator, its parameter name and its type annotation.       *)
RenderArgument ==
    /\ pc = "built" /\ level = "argument" /\ res[1].ok
    /\ rendered' = Some([clause |-> _render_argument(res[1].val[1]),
                         param |-> _to_param_name(res[1].val[1].name),
                         type |-> _python_type(res[1].val[1])])
    /\ pc' = "rendered"
    /\ UNCHANGED <<level, raw, res, held, again, added, asked, disk, gen, exit>>

RenderOption ==
    /\ pc = "built" /\ level = "option" /\ res[1].ok
    /\ rendered' = Some([clause |-> _render_option(res[1].val[1]),
                         param |-> _to_param_name(res[1].val[1].name),
                         type |-> _python_type(res[1].val[1])])
    /\ pc' = "rendered"
    /\ UNCHANGED <<level, raw, res, held, again, added, asked, disk, gen, exit>>

(* A call of generate on the Specification held, to some output directory;  *)
(* a later call follows one that returned, whose Specification, output      *)
(* directory and result the caller keeps, with the filesystem as the call   *)
(* left it (past).                                                          *)
Generate ==
    /\ level \in {"emit", "reemit"} /\ held # None
    /\ \/ pc = "built" /\ gen.pc = "idle"
       \/ pc = "emitting" /\ gen.pc = "returned"
    /\ gen.n < MaxEmissions
    /\ \E output_dir \in OutDirs :
          gen' = [pc |-> "mkdir_output", output_dir |-> output_dir, k |-> 0,
                  result |-> << >>, n |-> gen.n + 1,
                  past |-> IF gen.pc = "returned"
                           THEN Append(gen.past,
                                       [output_dir |-> gen.output_dir,
                                        result |-> gen.result,
                                        spec |-> held[1], disk |-> disk])
                           ELSE gen.past]
    /\ pc' = "emitting"
    /\ UNCHANGED <<level, raw, res, held, again, added, asked,
                 rendered, disk, exit>>

(* A call of generate, after one that returned, on another Specification of *)
(* the same name and to the same output directory.                          *)
GenerateOther ==
    /\ level = "reemit" /\ held # None
    /\ pc = "emitting" /\ gen.pc = "returned"
    /\ gen.n < MaxEmissions
    /\ \E other \in ReemitCLIs \ {raw} :
          /\ CLISpec(other).ok
          /\ CLISpec(other).val[1].name = held[1].name
          /\ held' = CLISpec(other).val
    /\ gen' = [pc |-> "mkdir_output", output_dir |-> gen.output_dir, k |-> 0,
               result |-> << >>, n |-> gen.n + 1,
               past |-> Append(gen.past,
                               [output_dir |-> gen.output_dir,
                                result |-> gen.result,
                                spec |-> held[1], disk |-> disk])]
    /\ UNCHANGED <<level, raw, pc, res, again, added, asked,
                 rendered, disk, exit>>

(* output_dir.mkdir(parents=True, exist_ok=True) *)
MkdirOutput ==
    /\ gen.pc = "mkdir_output"
    /\ \E env \in {"ok", "denied"} :
          LET m == mkdir(disk, gen.output_dir, TRUE, env)
          IN  /\ disk' = m.fs
              /\ gen' = IF m.ok THEN [gen EXCEPT !.pc = "mkdir_package"]
                        ELSE Raised(gen)
    /\ UNCHANGED <<level, raw, pc, res, held, again, added, asked,
                 rendered, exit>>

(* package_dir.mkdir(exist_ok=True) *)
MkdirPackage ==
    /\ gen.pc = "mkdir_package"
    /\ \E env \in {"ok", "denied"} :
          LET m == mkdir(disk, gen.output_dir \o <<held[1].name>>, FALSE, env)
          IN  /\ disk' = m.fs
              /\ gen' = IF m.ok THEN [gen EXCEPT !.pc = "write", !.k = 1]
                        ELSE Raised(gen)
    /\ UNCHANGED <<level, raw, pc, res, held, again, added, asked,
                 rendered, exit>>

WriteArtifact ==
    /\ gen.pc = "write"
    /\ \E env \in Environments :
          LET r == generate_step(gen, disk, held[1], env)
          IN  disk' = r.fs /\ gen' = r.gen
    /\ UNCHANGED <<level, raw, pc, res, held, again, added, asked,
                 rendered, exit>>

(* The build command: the file is parsed and validated, and generate is     *)
(* called on the Specification it gave.                                     *)
BuildCmd ==
    /\ pc = "input" /\ level = "build"
    /\ LET b == build_load(raw)
       IN  /\ res' = b.out
           /\ held' = b.spec
           /\ exit' = b.exit
           /\ IF b.exit # None
              THEN pc' = "exited" /\ gen' = gen
              ELSE /\ pc' = "emitting"
                   /\ \E output \in OutDirs :
                         gen' = [Idle EXCEPT !.pc = "mkdir_output",
                                             !.output_dir = output, !.n = 1]
    /\ UNCHANGED <<level, raw, again, added, asked, rendered, disk>>

(* The generate command: the Specification is asked for and shown; on a    *)
(* dry run the command returns, otherwise generate is called on it.         *)
GenerateCmd ==
    /\ pc = "input" /\ level = "generate"
    /\ LET g == generate_cmd(raw)
       IN  /\ res' = Some(g.out)
           /\ held' = g.out.val
           /\ asked' = IF g.called THEN asked + 1 ELSE asked
           /\ exit' = g.exit
           /\ IF g.exit # None
              THEN pc' = "exited" /\ gen' = gen
              ELSE /\ pc' = "emitting"
                   /\ \E output \in OutDirs :
                         gen' = [Idle EXCEPT !.pc = "mkdir_output",
                                             !.output_dir = output, !.n = 1]
    /\ UNCHANGED <<level, raw, again, added, rendered, disk>>

(* The generate command ends: with success when generate returned, through  *)
(* its handler of Exception when generate raised.                           *)
GenerateExit ==
    /\ pc = "emitting" /\ level = "generate"
    /\ gen.pc \in {"returned", "raised"}
    /\ exit' = Some(IF gen.pc = "returned"
                    THEN [code |-> 0, error |-> "none"]
                    ELSE [code |-> 1, error |-> "generation"])
    /\ pc' = "exited"
    /\ UNCHANGED <<level, raw, res, held, again, added, asked,
                 rendered, disk, gen>>

(* The build command ends: with success when generate returned, through     *)
(* its handler of Exception when generate raised.                           *)
BuildExit ==
    /\ pc = "emitting" /\ level = "build"
    /\ gen.pc \in {"returned", "raised"}
    /\ exit' = Some(IF gen.pc = "returned"
                    THEN [code |-> 0, error |-> "none"]
                    ELSE [code |-> 1, error |-> "generation"])
    /\ pc' = "exited"
    /\ UNCHANGED <<level, raw, res, held, again, added, asked,
                 rendered, disk, gen>>

Next ==
    \/ NewArgument
    \/ NewOption
    \/ NewCommand
    \/ NewCLISpec
    \/ Revalidate
    \/ AddCommand
    \/ SaveAndLoad
    \/ RenderArgument
    \/ RenderOption
    \/ Generate
    \/ GenerateOther
    \/ MkdirOutput
    \/ MkdirPackage
    \/ WriteArtifact
    \/ BuildCmd
    \/ BuildExit
    \/ GenerateCmd
    \/ GenerateExit

Spec == Init /\ [][Next]_vars

-----------------------------------------------------------------------------
(* Field assignment and list append on a constructed CLISpec.  The models   *)
(* are declared without a frozen configuration and without                  *)
(* validate_assignment, so both are accepted and run no validator.          *)

AssignName ==
    /\ pc = "built" /\ level = "cli" /\ held # None
    /\ \E n \in {<<"i", "f">>, <<"f", "-">>, <<"f", "f">>} :
          held' = Some([held[1] EXCEPT !.name = n])
    /\ pc' = "assigned"
    /\ UNCHANGED <<level, raw, res, again, added, asked>>
    /\ UNCHANGED emitVars

AppendCommand ==
    /\ pc = "built" /\ level = "cli" /\ held # None
    /\ \E command \in AgentCommands :
          held' = Some([held[1] EXCEPT !.commands = Append(@, command)])
    /\ pc' = "assigned"
    /\ UNCHANGED <<level, raw, res, again, added, asked>>
    /\ UNCHANGED emitVars

NextAssign ==
    \/ Next
    \/ AssignName
    \/ AppendCommand

SpecAssign == Init /\ [][NextAssign]_vars

-----------------------------------------------------------------------------
(* Properties.                                                              *)

Built(lv) == level = lv /\ res # None

Result == res[1]

Distinct(s) == \A i, j \in DOMAIN s : i # j => s[i] # s[j]

Occurrences(x, s) == Cardinality({i \in DOMAIN s : s[i] = x})

Rules(errs) == {errs[k].rule : k \in DOMAIN errs}

(* The names a report lists under a rule. *)
Listed(errs, rule) ==
    Flatten([k \in 1..Len(errs) |->
        IF errs[k].rule = rule THEN errs[k].names ELSE << >>])

OptionsAllValid(options) == \A i \in DOMAIN options : OptionSpec(options[i]).ok

CommandsAllValid(commands) ==
    \A i \in DOMAIN commands : CommandSpec(commands[i]).ok

NamesOf(items) == [i \in 1..Len(items) |-> items[i].name]

CleanNamesOf(items) == [i \in 1..Len(items) |-> LStripDash(items[i].name)]

(* The short name of a candidate option once its leading dashes are gone;   *)
(* an absent short name counts as empty.                                    *)
StrippedShort(o) == IF o.short = None THEN << >> ELSE LStripDash(o.short[1])

(* No two options of the candidate list share a non-empty stripped short. *)
ShortsDistinct(options) ==
    \A i, j \in DOMAIN options :
        (i # j /\ StrippedShort(options[i]) # << >>)
            => StrippedShort(options[i]) # StrippedShort(options[j])

NoChoices(o) == o.choices = None \/ o.choices[1] = << >>

NameRules == {"name_empty", "name_not_identifier", "name_keyword"}

(* C1: a Specification whose command list holds some name two or more      *)
(* times fails validation, and the report lists each duplicated command     *)
(* name exactly once, however often it is repeated.  Stated for candidates  *)
(* that violate no other rule (valid name, valid children).                 *)
C1_DuplicateCommandNamesListedOnce ==
    (/\ Built("cli")
     /\ IsIdentifier(raw.name) /\ ~iskeyword(raw.name)
     /\ CommandsAllValid(raw.commands)
     /\ OptionsAllValid(raw.global_options)
     /\ ~Distinct(NamesOf(raw.commands)))
    => /\ ~Result.ok
       /\ \A n \in Range(NamesOf(raw.commands)) :
             Occurrences(n, NamesOf(raw.commands)) >= 2
                => Occurrences(n, Listed(Result.errs,
                                         "duplicate_command_names")) = 1

(* C2: a validation failure reports every violated rule found in that call: *)
(* an Option reports both its short-name and its choice violation, a        *)
(* Command every kind of duplicate it has, a Specification its invalid name *)
(* together with its duplicates.                                            *)
OptionViolations(o) ==
    (IF Len(StrippedShort(o)) > 1
     THEN {"short_option_single_character"} ELSE {})
    \cup (IF o.type = "choice" /\ NoChoices(o)
          THEN {"choice_needs_choices"} ELSE {})

CommandViolations(c) ==
    (IF ~Distinct(CleanNamesOf(c.options))
     THEN {"duplicate_option_names"} ELSE {})
    \cup (IF ~ShortsDistinct(c.options)
          THEN {"duplicate_short_option_names"} ELSE {})
    \cup (IF ~Distinct(CleanNamesOf(c.arguments))
          THEN {"duplicate_argument_names"} ELSE {})

CliViolations(c) ==
    (IF c.name = << >> THEN {"name_empty"}
     ELSE IF iskeyword(c.name) THEN {"name_keyword"}
     ELSE IF ~IsIdentifier(c.name) THEN {"name_not_identifier"} ELSE {})
    \cup (IF ~Distinct(NamesOf(c.commands))
          THEN {"duplicate_command_names"} ELSE {})
    \cup (IF ~Distinct(CleanNamesOf(c.global_options))
          THEN {"duplicate_global_option_names"} ELSE {})
    \cup (IF ~ShortsDistinct(c.global_options)
          THEN {"duplicate_global_short_option_names"} ELSE {})

C2_EveryViolationReported ==
    /\ Built("option") => OptionViolations(raw) \subseteq Rules(Result.errs)
    /\ (Built("command") /\ OptionsAllValid(raw.options))
          => CommandViolations(raw) \subseteq Rules(Result.errs)
    /\ (/\ Built("cli")
        /\ CommandsAllValid(raw.commands)
        /\ OptionsAllValid(raw.global_options)
        /\ raw.name = << >> \/ raw.name[Len(raw.name)] # NL)
          => CliViolations(raw) \subseteq Rules(Result.errs)

(* C3: a Specification is immutable once constructed: no later operation,   *)
(* field assignment and list append included, changes it, so the value the  *)
(* caller holds is the validated one and still passes validation.           *)
C3_ImmutableAfterValidation ==
    held # None =>
        /\ held = Result.val
        /\ validate_cli_spec(held[1]) = << >>

(* C4 as claimed: an Option of type 'choice' fails construction if and only *)
(* if its choices are absent or empty.                                      *)
C4_ChoiceFailsIffNoChoices ==
    (Built("option") /\ raw.type = "choice")
        => (~Result.ok <=> NoChoices(raw))

(* C4, amended: an Option of type 'choice' fails construction if and only   *)
(* if its choices are absent or empty or its short name is longer than one  *)
(* character once stripped; for any other type the choices never cause a    *)
(* failure (construction fails exactly on such a short name) and are kept   *)
(* as given.                                                                *)
C4_ChoiceRule ==
    Built("option") =>
        /\ raw.type = "choice"
              => (~Result.ok <=> (NoChoices(raw) \/ Len(StrippedShort(raw)) > 1))
        /\ raw.type # "choice"
              => /\ ~Result.ok <=> Len(StrippedShort(raw)) > 1
                 /\ Result.ok => Result.val[1].choices = raw.choices

C4_Witness ==
    /\ Built("option")
    /\ raw.type = "choice"
    /\ raw.choices = Some(<< >>)
    /\ raw.short = Some(<<"o">>)
    /\ Rules(Result.errs) = {"choice_needs_choices"}

(* C6 as claimed: a short name that is empty once stripped is normalized to *)
(* absent and accepted, one of exactly one character is accepted and        *)
(* stored, one of any other length fails.                                   *)
C6_ShortAcceptedByLength ==
    Built("option") =>
        /\ Len(StrippedShort(raw)) = 0
              => Result.ok /\ Result.val[1].short = None
        /\ Len(StrippedShort(raw)) = 1
              => Result.ok /\ Result.val[1].short = Some(StrippedShort(raw))
        /\ Len(StrippedShort(raw)) > 1 => ~Result.ok

(* C6, amended: a short name that is empty once stripped is normalized to   *)
(* absent, one of exactly one character is stored, and in both cases        *)
(* construction succeeds unless the Option has type 'choice' with absent or *)
(* empty choices; one of any other length fails.  No constructed Option has *)
(* a short name whose length is not 1.                                      *)
C6_ShortRule ==
    Built("option") =>
        /\ Len(StrippedShort(raw)) = 0
              => /\ Result.ok <=> ~(raw.type = "choice" /\ NoChoices(raw))
                 /\ Result.ok => Result.val[1].short = None
        /\ Len(StrippedShort(raw)) = 1
              => /\ Result.ok <=> ~(raw.type = "choice" /\ NoChoices(raw))
                 /\ Result.ok
                       => Result.val[1].short = Some(StrippedShort(raw))
        /\ Len(StrippedShort(raw)) > 1 => ~Result.ok
        /\ Result.ok
              => \/ Result.val[1].short = None
                 \/ Len(Result.val[1].short[1]) = 1

C6_Witness ==
    /\ Built("option")
    /\ raw.short = Some(<<"-", "-">>)
    /\ Result.ok
    /\ Result.val[1].short = None

(* C7: a Command whose arguments and options are each valid is constructed  *)
(* if and only if its argument names are pairwise distinct, its option      *)
(* names are pairwise distinct and the short names of the options that have *)
(* one are pairwise distinct; options without a short name never collide.   *)
C7_CommandUniqueness ==
    (Built("command") /\ OptionsAllValid(raw.options))
        => (Result.ok <=> /\ Distinct(CleanNamesOf(raw.arguments))
                          /\ Distinct(CleanNamesOf(raw.options))
                          /\ ShortsDistinct(raw.options))

C7_Witness ==
    /\ Built("command")
    /\ Result.ok
    /\ Len(raw.arguments) = 2
    /\ \E i, j \in DOMAIN raw.options :
          i # j /\ raw.options[i].short = None /\ raw.options[j].short = None

(* C8: a Specification fails whenever two global options share a name or    *)
(* share a short name that is not absent; global options without a short    *)
(* name are left out of the short-name check, so a report of duplicate      *)
(* global short names always rests on two options that have the same one.   *)
C8_GlobalOptionUniqueness ==
    Built("cli") =>
        /\ (\/ ~Distinct(CleanNamesOf(raw.global_options))
            \/ ~ShortsDistinct(raw.global_options)) => ~Result.ok
        /\ "duplicate_global_short_option_names" \in Rules(Result.errs)
              => ~ShortsDistinct(raw.global_options)
        /\ "duplicate_global_option_names" \in Rules(Result.errs)
              => ~Distinct(CleanNamesOf(raw.global_options))

C8_Witness ==
    /\ Built("cli")
    /\ Result.ok
    /\ \E i, j \in DOMAIN raw.global_options :
          /\ i # j
          /\ raw.global_options[i].short = None
          /\ raw.global_options[j].short = None

(* C9: validating a validated Specification again succeeds and returns a    *)
(* value equal to the first result in every field.                          *)
C9_ValidationIdempotent ==
    (level = "cli" /\ again # None)
        => /\ again[1].ok
           /\ again[1].val = Result.val

C9_Witness ==
    /\ level = "cli"
    /\ again # None
    /\ again[1].ok
    /\ Result.val[1].global_options # raw.global_options
    /\ Len(raw.commands) = 2

(* C10: add_command, given a valid Specification s and the Command c of the *)
(* collaborator, leaves s unchanged and constructs a new Specification: if  *)
(* c's name is the name of a command of s the call fails with the           *)
(* validation error of duplicate command names, otherwise it returns s with *)
(* c appended to its commands and every other field equal.                  *)
C10_AddCommandCopyOnWrite ==
    (added # None /\ added[1].command # None) =>
        LET s == Result.val[1]
            c == added[1].command[1]
            out == added[1].out
        IN  /\ held = Some(s)
            /\ IF \E i \in DOMAIN s.commands : s.commands[i].name = c.name
               THEN /\ ~out.ok
                    /\ Rules(out.errs) = {"duplicate_command_names"}
               ELSE /\ out.ok
                    /\ out.val[1].commands = Append(s.commands, c)
                    /\ out.val[1] = [s EXCEPT !.commands = out.val[1].commands]

C10_Witness ==
    /\ added # None
    /\ added[1].command # None
    /\ ~added[1].out.ok
    /\ Len(held[1].commands) = 2
    /\ held[1].global_options # << >>

(* C5: a Specification is accepted with respect to its name if and only if  *)
(* the name is non-empty, matches [A-Za-z_][A-Za-z0-9_]* over its whole     *)
(* length and is not a reserved keyword.                                    *)
C5_NameAcceptedIffIdentifier ==
    (/\ Built("cli")
     /\ CommandsAllValid(raw.commands)
     /\ OptionsAllValid(raw.global_options))
    => ((Rules(Result.errs) \cap NameRules = {})
            <=> (IsIdentifier(raw.name) /\ raw.name \notin Keywords))

-----------------------------------------------------------------------------
(* Properties of CodeGenerator.generate and of the build command.           *)

Returned == gen.pc = "returned"

ResultKinds == [i \in DOMAIN gen.result |-> gen.result[i].kind]

(* The layout: the entry module and the package initializer in              *)
(* <output_dir>/<name>, the manifest and the documentation in <output_dir>. *)
Layout(output_dir, name) ==
    [cli |-> output_dir \o <<name, <<"cli.py">>>>,
     init |-> output_dir \o <<name, <<"__init__.py">>>>,
     pyproject |-> output_dir \o <<<<"pyproject.toml">>>>,
     readme |-> output_dir \o <<<<"README.md">>>>]

ResultInLayout ==
    /\ ResultKinds = <<"cli", "init", "pyproject", "readme">>
    /\ \A i \in DOMAIN gen.result :
          /\ gen.result[i].path =
                Layout(gen.output_dir, held[1].name)[gen.result[i].kind]
          /\ gen.result[i].path \in DOMAIN disk.files

(* C11 as stated: when generate returns, its result maps exactly the four   *)
(* kinds, each to the absolute path of a file that exists, in the layout    *)
(* <output_dir>/<name>/cli.py, <output_dir>/<name>/__init__.py,             *)
(* <output_dir>/pyproject.toml, <output_dir>/README.md.                     *)
C11_ResultAbsolutePaths ==
    Returned =>
        /\ ResultInLayout
        /\ \A i \in DOMAIN gen.result : is_absolute(gen.result[i].path)

(* C11: when generate returns, its result maps exactly the four kinds, each *)
(* to the path of a file that exists, in the layout under the output        *)
(* directory as it was given: the path is absolute exactly when the output  *)
(* directory given is absolute, and it starts with that directory.          *)
C11_ResultPathsUnderOutputDir ==
    Returned =>
        /\ ResultInLayout
        /\ \A i \in DOMAIN gen.result :
              /\ is_absolute(gen.result[i].path) <=> is_absolute(gen.output_dir)
              /\ SubSeq(gen.result[i].path, 1, Len(gen.output_dir))
                    = gen.output_dir

(* generate returned for an output directory whose parent did not exist,    *)
(* and for a relative one.                                                  *)
C11_Witness ==
    /\ Returned
    /\ gen.n = 1
    /\ gen.output_dir = <<ROOT, <<"t">>, <<"n">>, <<"b">>>>
    /\ <<ROOT, <<"t">>, <<"n">>>> \notin InitFS.dirs
    /\ Len(gen.result) = Len(Kinds)

WritePath == Layout(gen.output_dir, held[1].name)[Kinds[gen.k]]

(* One step of the program seen from a call of generate: after the call     *)
(* raised nothing is written, removed or tried again; a write that fails    *)
(* touches no file but its own; a write that succeeds puts the full content *)
(* of the file whose turn it is, records it next in the result and touches  *)
(* no other file.                                                           *)
WriteStepInOrder ==
    /\ gen.pc = "raised" => disk' = disk /\ gen' = gen
    /\ gen.pc = "write" =>
          /\ DOMAIN disk'.files \subseteq DOMAIN disk.files \cup {WritePath}
          /\ \A q \in DOMAIN disk.files \ {WritePath} :
                q \in DOMAIN disk'.files /\ disk'.files[q] = disk.files[q]
          /\ gen'.pc \in {"raised", "write", "returned"}
          /\ gen'.pc = "raised" => gen'.result = gen.result
          /\ gen'.pc # "raised" =>
                /\ gen'.result =
                      Append(gen.result,
                             [kind |-> Kinds[gen.k], path |-> WritePath])
                /\ disk'.files[WritePath] =
                      ArtifactContent(held[1], Kinds[gen.k])
                /\ gen'.k = (IF gen.k = Len(Kinds) THEN 0 ELSE gen.k + 1)

(* The files written before the one that failed are on disk with their full *)
(* content, and they are the result built so far.                           *)
EarlierArtifactsKept ==
    gen.pc = "raised" /\ gen.k >= 1 =>
        /\ ResultKinds = SubSeq(Kinds, 1, gen.k - 1)
        /\ \A j \in 1..(gen.k - 1) :
              LET p == Layout(gen.output_dir, held[1].name)[Kinds[j]]
              IN  /\ p \in DOMAIN disk.files
                  /\ disk.files[p] = ArtifactContent(held[1], Kinds[j])

(* C12: generate writes the entry module, the package initializer, the      *)
(* manifest and the documentation in this order; when the write of one of   *)
(* them fails the call raises, the files written before it stay on disk     *)
(* with their full content, and no later file is written, nothing is        *)
(* removed and nothing is tried again.                                      *)
C12_SequentialWritesNoRollback ==
    [](EarlierArtifactsKept) /\ [][WriteStepInOrder]_vars

(* The write of the manifest failed after the entry module and the package  *)
(* initializer were written.                                                *)
C12_Witness ==
    /\ gen.pc = "raised"
    /\ gen.k = 3
    /\ Layout(gen.output_dir, held[1].name).cli \in DOMAIN disk.files
    /\ Layout(gen.output_dir, held[1].name).init \in DOMAIN disk.files
    /\ Layout(gen.output_dir, held[1].name).readme \notin DOMAIN disk.files

Loaded == level = "build" /\ pc # "input"

Validates(doc) == doc.json /\ CLISpec(doc.data).ok

(* C13: the build command, given a file that is not JSON or whose document  *)
(* fails the validation of CLISpec, reports that error, exits with a        *)
(* non-zero status and never calls generate, so the filesystem is as it     *)
(* was; generate is called only on the Specification that a validating      *)
(* document gave.                                                           *)
C13_BuildRejectsBeforeEmission ==
    Loaded =>
        /\ ~Validates(raw) =>
              /\ exit # None
              /\ exit[1].code # 0
              /\ exit[1].error = (IF raw.json THEN "validation" ELSE "json")
              /\ gen = Idle
              /\ disk = InitFS
        /\ gen.n > 0 => Validates(raw) /\ held = CLISpec(raw.data).val

(* The build command has ended on a JSON document that fails validation,    *)
(* and on a file that is not JSON.                                          *)
C13_Witness ==
    /\ Loaded
    /\ raw.json
    /\ ~CLISpec(raw.data).ok
    /\ exit = Some([code |-> 1, error |-> "validation"])
    /\ gen.n = 0

FuncNames == [i \in DOMAIN held[1].commands |->
                 _to_func_name(held[1].commands[i].name)]

(* C14: once the entry module of a valid Specification is generated, the    *)
(* function names that to_func_name gives its commands are pairwise         *)
(* distinct, so that the module holds one callable per command.             *)
C14_FunctionNamesDistinct ==
    level = "emit" /\ Returned => Distinct(FuncNames)

(* Python's scan of double-quoted string literals over generated text: from *)
(* position i in code, in a string or in a triple-quoted string, it tells   *)
(* whether the text ends in code with no line end inside a string.          *)
RECURSIVE Scan(_, _, _)
Scan(t, i, mode) ==
    IF i > Len(t) THEN mode = "code"
    ELSE CASE mode = "code" ->
                IF t[i] # DQ THEN Scan(t, i + 1, "code")
                ELSE IF i + 2 <= Len(t) /\ t[i + 1] = DQ /\ t[i + 2] = DQ
                THEN Scan(t, i + 3, "triple")
                ELSE Scan(t, i + 1, "string")
           [] mode = "string" ->
                IF t[i] = BS THEN Scan(t, i + 2, "string")
                ELSE IF t[i] = DQ THEN Scan(t, i + 1, "code")
                ELSE IF t[i] = NL THEN FALSE
                ELSE Scan(t, i + 1, "string")
           [] mode = "triple" ->
                IF t[i] = BS THEN Scan(t, i + 2, "triple")
                ELSE IF /\ t[i] = DQ /\ i + 2 <= Len(t)
                        /\ t[i + 1] = DQ /\ t[i + 2] = DQ
                THEN Scan(t, i + 3, "code")
                ELSE Scan(t, i + 1, "triple")

StringsClosed(text) == Scan(text, 1, "code")

(* C15: every string literal that the rendered decorator of an option or    *)
(* an argument opens is closed, and so is every one of the generated        *)
(* package initializer, whatever the help text, the default, the choices    *)
(* and the description hold.                                                *)
C15_LiteralsWellFormed ==
    /\ rendered # None => StringsClosed(rendered[1].clause)
    /\ level = "emit" /\ Returned =>
          StringsClosed(disk.files[Layout(gen.output_dir, held[1].name).init])

FileOf(output_dir, kind) ==
    disk.files[Layout(output_dir, held[1].name)[kind]]

Between(t, a, b) ==
    LET i == CHOOSE i \in DOMAIN t :
                 t[i] = a /\ \A j \in 1..(i - 1) : t[j] # a
        k == CHOOSE k \in (i + 1)..Len(t) :
                 t[k] = b /\ \A j \in (i + 1)..(k - 1) : t[j] # b
    IN  SubSeq(t, i + 1, k - 1)

RECURSIVE Split(_, _)
Split(t, sep) ==
    IF \A i \in DOMAIN t : t[i] # sep THEN <<t>>
    ELSE LET i == CHOOSE i \in DOMAIN t :
                      t[i] = sep /\ \A j \in 1..(i - 1) : t[j] # sep
         IN  <<SubSeq(t, 1, i - 1)>> \o Split(SubSeq(t, i + 1, Len(t)), sep)

Contains(t, sub) ==
    \E i \in 1..(Len(t) + 1 - Len(sub)) : SubSeq(t, i, i + Len(sub) - 1) = sub

(* C17: in the generated manifest the dependency list is the baseline       *)
(* dependency click>=8.1 followed by the dependencies of the Specification  *)
(* in their order, each once per occurrence; the package name is the name   *)
(* of the Specification, and the one script binds it to <name>.cli:main.    *)
C17_ManifestDependencies ==
    level = "emit" /\ Returned =>
        LET manifest == FileOf(gen.output_dir, "pyproject")
            name == held[1].name
            declared == held[1].dependencies
        IN  /\ Split(Between(manifest, "\ndependencies = [\n    ",
                             ",\n]\n\n[project.scripts]\n"), ",\n    ")
                  = [i \in 1..(Len(declared) + 1) |->
                        Quoted(IF i = 1 THEN <<"click>=8.1">>
                               ELSE declared[i - 1])]
            /\ Between(manifest, "[project]\nname = ", "\nversion = ")
                  = Quoted(name)
            /\ Between(manifest, ",\n]\n\n[project.scripts]\n",
                       "\n\n[build-system]\nrequires = [")
                  = name \o <<" = ", DQ>> \o name \o <<".cli:main", DQ>>

(* A manifest was generated for a Specification that declares the same      *)
(* dependency twice.                                                        *)
C17_Witness ==
    /\ level = "emit" /\ Returned
    /\ Len(held[1].dependencies) = 2
    /\ held[1].dependencies[1] = held[1].dependencies[2]
    /\ FileOf(gen.output_dir, "pyproject") # << >>

(* The section of the i-th command in the generated documentation, and the  *)
(* generic usage line of a command.                                         *)
SectionOf(i) ==
    Split(FileOf(gen.output_dir, "readme"), "### ")[i + 1]

GenericLine(cmd) ==
    held[1].name \o <<" ">> \o cmd.name \o <<" --help\n'''\n\n">>

(* C18 as stated: the section of a command holds its examples when it has   *)
(* examples, and holds the generic line <name> <command> --help only when   *)
(* it has none.                                                             *)
C18_ExamplesOrGenericLine ==
    level = "emit" /\ Returned =>
        \A i \in DOMAIN held[1].commands :
            LET cmd == held[1].commands[i]
            IN  /\ \A e \in DOMAIN cmd.examples :
                      Contains(SectionOf(i), cmd.examples[e])
                /\ Contains(SectionOf(i), GenericLine(cmd))
                      <=> cmd.examples = << >>

(* C18: the section of every command holds the generic line <name>          *)
(* <command> --help, whether the command has examples or not, and holds     *)
(* none of its examples.                                                    *)
C18_GenericLineAlways ==
    level = "emit" /\ Returned =>
        \A i \in DOMAIN held[1].commands :
            LET cmd == held[1].commands[i]
            IN  /\ Contains(SectionOf(i), GenericLine(cmd))
                /\ \A e \in DOMAIN cmd.examples :
                      ~Contains(SectionOf(i), cmd.examples[e])

(* The documentation was generated for a command that has two examples. *)
C18_Witness ==
    /\ level = "emit" /\ Returned
    /\ Len(held[1].commands) = 1
    /\ Len(held[1].commands[1].examples) = 2
    /\ Contains(SectionOf(1), GenericLine(held[1].commands[1]))

HasDefaultLiteral(clause) == \E i \in DOMAIN clause : clause[i] = ", default="

(* C19: the rendered decorator of an option holds a default literal if and  *)
(* only if the option has a default (not None) and its type is not bool.    *)
C19_DefaultLiteralRule ==
    level = "option" /\ rendered # None =>
        (HasDefaultLiteral(rendered[1].clause)
            <=> Result.val[1].default # None /\ Result.val[1].type # "bool")

(* A bool option that has a default was rendered, with no default literal. *)
C19_Witness ==
    /\ level = "option" /\ rendered # None
    /\ Result.val[1].type = "bool"
    /\ Result.val[1].default # None
    /\ ~HasDefaultLiteral(rendered[1].clause)

(* C20: the annotation of a known type tag is str, int, float, bool, Path   *)
(* or str (choice); it is followed by " | None" exactly when the entity is  *)
(* an option that is not required and whose type is not bool, so never for  *)
(* a bool option and never for an argument.                                 *)
C20_TargetTypeRule ==
    rendered # None =>
        LET entity == Result.val[1]
            t == rendered[1].type
            known == [str |-> "str", int |-> "int", float |-> "float",
                      bool |-> "bool", path |-> "Path", choice |-> "str"]
            wraps == level = "option" /\ ~entity.required
                     /\ entity.type # "bool"
        IN  /\ entity.type \in DOMAIN known => t[1] = known[entity.type]
            /\ t = (IF wraps THEN <<t[1], " | None">> ELSE <<t[1]>>)

(* An argument that is not required, and an option of type bool that is not *)
(* required, were given their annotation.                                   *)
C20_Witness ==
    /\ rendered # None
    /\ ~Result.val[1].required
    /\ \/ level = "argument" /\ Result.val[1].type = "path"
       \/ level = "option" /\ Result.val[1].type = "bool"
    /\ Len(rendered[1].type) = 1

(* The arguments and options of the commands of a Specification whose type *)
(* tag the type mapper does not know.                                       *)
UnknownTyped(spec) ==
    {a \in UNION {Range(spec.commands[i].arguments) \cup
                  Range(spec.commands[i].options) :
                     i \in DOMAIN spec.commands} :
        a.type \notin DOMAIN type_map}

(* C21: a type tag outside the known ones is never an error.  An Argument   *)
(* or Option that carries one is accepted exactly when it would be with the *)
(* tag str, and keeps its tag; the type mapper gives it the annotation str; *)
(* and when generate returns for a Specification that holds one, the four   *)
(* artifacts are written and the entry module annotates the parameter str.  *)
C21_UnknownTypeNeverError ==
    /\ (level \in {"argument", "option"} /\ res # None
        /\ raw.type \notin DOMAIN type_map) =>
          /\ Result.ok = Validate(level, [raw EXCEPT !.type = "str"]).ok
          /\ Result.ok => Result.val[1].type = raw.type
          /\ rendered # None => rendered[1].type[1] = "str"
    /\ (level = "emit" /\ Returned) =>
          \A a \in UnknownTyped(held[1]) :
              /\ ResultInLayout
              /\ Contains(FileOf(gen.output_dir, "cli"),
                          _to_param_name(a.name) \o <<": ", "str">>)

(* generate returned for a Specification whose command has an argument and  *)
(* an option of an unknown type tag, and a global option of one.            *)
C21_Witness ==
    /\ level = "emit" /\ Returned
    /\ \E a \in UnknownTyped(held[1]) : ~IsOptionSpec(a)
    /\ \E a \in UnknownTyped(held[1]) : IsOptionSpec(a)
    /\ \E i \in DOMAIN held[1].global_options :
          held[1].global_options[i].type \notin DOMAIN type_map

(* C22: every Argument that is constructed has a name that is not empty     *)
(* once its leading dashes are stripped, so a candidate whose name is empty *)
(* or made of dashes only is rejected.                                      *)
C22_ArgumentNameNonEmpty ==
    Built("argument") =>
        /\ Result.ok => Result.val[1].name # << >>
        /\ LStripDash(raw.name) = << >> => ~Result.ok

(* The index of the first occurrence of x in s. *)
FirstIndex(x, s) ==
    CHOOSE i \in DOMAIN s : s[i] = x /\ \A j \in 1..(i - 1) : s[j] # x

(* C23: the report of a uniqueness failure lists the offending names in     *)
(* the order in which they are first seen among the siblings: for the       *)
(* option names [a, b, b, a] it lists a before b.                           *)
C23_ReportedInFirstSeenOrder ==
    (Built("command") /\ OptionsAllValid(raw.options)) =>
        LET names == CleanNamesOf(raw.options)
            listed == Listed(Result.errs, "duplicate_option_names")
        IN  \A x, y \in Range(listed) :
                FirstIndex(x, names) < FirstIndex(y, names)
                    => FirstIndex(x, listed) < FirstIndex(y, listed)

(* What is left of a name once its leading dashes, and only those, are      *)
(* removed: the longest suffix that follows dashes only.                    *)
Stripped(n) ==
    CHOOSE c \in {SubSeq(n, k + 1, Len(n)) : k \in 0..Len(n)} :
        /\ \A i \in 1..(Len(n) - Len(c)) : n[i] = "-"
        /\ c = << >> \/ c[1] # "-"

(* C24: cleanup runs before every check.  A constructed Argument or Option  *)
(* holds its name without the leading dashes and with the interior ones;    *)
(* the length check of the short name sees the short name without its       *)
(* leading dashes, and a short name of dashes only or of no character is    *)
(* absent for it; siblings whose names, or whose short names, are equal     *)
(* once stripped are rejected, and a short name of dashes only or of no     *)
(* character never collides.                                                *)
C24_CleanupBeforeChecks ==
    /\ (level \in {"argument", "option"} /\ res # None /\ Result.ok)
          => Result.val[1].name = Stripped(raw.name)
    /\ (Built("option") /\ raw.short # None) =>
          /\ "short_option_single_character" \in Rules(Result.errs)
                <=> Len(Stripped(raw.short[1])) > 1
          /\ Result.ok =>
                Result.val[1].short =
                    (IF Stripped(raw.short[1]) = << >> THEN None
                     ELSE Some(Stripped(raw.short[1])))
    /\ (Built("command") /\ OptionsAllValid(raw.options)) =>
          LET shorts == [i \in DOMAIN raw.options |->
                            IF raw.options[i].short = None THEN << >>
                            ELSE Stripped(raw.options[i].short[1])]
              names == [i \in DOMAIN raw.options |->
                            Stripped(raw.options[i].name)]
              clash == \E i, j \in DOMAIN shorts :
                           i # j /\ shorts[i] = shorts[j] /\ shorts[i] # << >>
          IN  /\ ~Distinct(names) => ~Result.ok
              /\ clash => ~Result.ok
              /\ "duplicate_short_option_names" \in Rules(Result.errs)
                    => clash
              /\ (Distinct(names) /\ ~clash
                  /\ Distinct([i \in DOMAIN raw.arguments |->
                                  Stripped(raw.arguments[i].name)]))
                    => Result.ok

(* A Command was rejected for two options whose names differ as given and   *)
(* are equal once stripped.                                                 *)
C24_Witness ==
    /\ Built("command") /\ ~Result.ok
    /\ \E i, j \in DOMAIN raw.options :
          /\ raw.options[i].name # raw.options[j].name
          /\ Stripped(raw.options[i].name) = Stripped(raw.options[j].name)
    /\ "duplicate_option_names" \in Rules(Result.errs)

(* C25: a valid Specification that is saved as JSON and loaded again from   *)
(* that text passes validation, and the Specification loaded equals the one *)
(* saved in every field.                                                    *)
C25_PersistenceRoundTrip ==
    (level = "persist" /\ pc = "reloaded") =>
        /\ again[1].ok
        /\ again[1].val = Result.val

(* A description with no character other than whitespace. *)
OnlyWhitespace(description) ==
    \A i \in DOMAIN description : description[i] \in Whitespace

(* C26: SpecGenerator.generate and add_command reject a description that is *)
(* empty or whitespace only with the ValueError of the empty description,   *)
(* and no request has gone to the agent; add_command leaves the             *)
(* Specification it was given as it was and constructs no Specification.    *)
(* Any other description is passed to the agent, once.                      *)
C26_BlankDescriptionRejectedFirst ==
    /\ (level = "cli" /\ added # None) =>
          IF OnlyWhitespace(added[1].description)
          THEN /\ asked = 0
               /\ ~added[1].out.ok
               /\ Rules(added[1].out.errs) = {"description_empty"}
               /\ added[1].out.val = None
               /\ held = Result.val
          ELSE asked = 1
    /\ (level = "generate" /\ res # None) =>
          IF OnlyWhitespace(raw.description)
          THEN /\ asked = 0
               /\ ~Result.ok
               /\ Rules(Result.errs) = {"description_empty"}
               /\ held = None
          ELSE asked = 1

(* generate was called with a description of a tab and a newline while the  *)
(* agent had a Specification to give.                                       *)
C26_Witness ==
    /\ level = "generate" /\ res # None
    /\ raw.description = <<"\t", NL>>
    /\ raw.reply # None
    /\ asked = 0

(* The emitter has been invoked n times. *)
EmitterInvoked(n) == gen.n = n

(* C27: the generate command with --dry-run ends with success once the      *)
(* Specification is produced, without invoking the emitter and without      *)
(* creating a directory or a file; without --dry-run the emitter is invoked *)
(* exactly once, and only after the Specification was produced; when no     *)
(* Specification is produced the command fails and the emitter is not       *)
(* invoked.                                                                 *)
C27_DryRunNeverEmits ==
    (level = "generate" /\ res # None) =>
        /\ ~Result.ok =>
              /\ EmitterInvoked(0) /\ disk = InitFS
              /\ exit = Some([code |-> 1, error |-> "specification"])
        /\ (Result.ok /\ raw.dry_run) =>
              /\ EmitterInvoked(0) /\ disk = InitFS
              /\ exit = Some([code |-> 0, error |-> "none"])
        /\ (Result.ok /\ ~raw.dry_run) =>
              /\ EmitterInvoked(1)
              /\ held = Result.val
        /\ ~EmitterInvoked(0) => (Result.ok /\ asked = 1)

(* A dry run ended with success for a Specification that has a command. *)
C27_Witness ==
    /\ level = "generate" /\ pc = "exited"
    /\ raw.dry_run /\ Result.ok
    /\ held[1].commands # << >>
    /\ exit[1].code = 0

(* The rules an entity raises on its own fields and siblings, as opposed to *)
(* the line errors of its children, have an empty path.                     *)
OwnErrors(errs) == {k \in DOMAIN errs : errs[k].path = << >>}

UniquenessRules ==
    {"duplicate_option_names", "duplicate_short_option_names",
     "duplicate_argument_names", "duplicate_command_names",
     "duplicate_global_option_names", "duplicate_global_short_option_names"}

(* C28: the checks of a Command or Specification on itself, uniqueness      *)
(* among them, run only when every child has passed its own validation:     *)
(* when a child is invalid the call fails, every failure reported is one of *)
(* a child, and no uniqueness failure of the entity itself is reported;     *)
(* when every child is valid, whatever is reported is the entity's own.     *)
C28_ChildrenBeforeUniqueness ==
    /\ Built("command") =>
          IF OptionsAllValid(raw.options)
          THEN OwnErrors(Result.errs) = DOMAIN Result.errs
          ELSE /\ ~Result.ok
               /\ OwnErrors(Result.errs) = {}
               /\ Rules(Result.errs) \cap UniquenessRules = {}
    /\ Built("cli") =>
          IF CommandsAllValid(raw.commands)
             /\ OptionsAllValid(raw.global_options)
          THEN OwnErrors(Result.errs) = DOMAIN Result.errs
          ELSE /\ ~Result.ok
               /\ OwnErrors(Result.errs) = {}
               /\ Rules(Result.errs)
                     \cap {"duplicate_command_names",
                           "duplicate_global_option_names",
                           "duplicate_global_short_option_names"} = {}

(* A Command that repeats an option name and has an option with a short     *)
(* name of two characters was rejected for the short name alone.            *)
C28_Witness ==
    /\ Built("command")
    /\ ~Distinct(CleanNamesOf(raw.options))
    /\ ~OptionsAllValid(raw.options)
    /\ Rules(Result.errs) = {"short_option_single_character"}

ParsingRules ==
    {", is_flag=True", ", type=int", ", type=float", ", type=click.Path()",
     ", type=click.Choice(["}

(* C29: the rendered decorator of an option holds exactly the parsing rule  *)
(* of its type: is_flag for bool, int, float, click.Path() for path, a      *)
(* click.Choice of the option's choices in their order for choice, and no   *)
(* rule for str or an unknown tag; it begins with the short flag if and     *)
(* only if the option has a short name, and holds required=True if and only *)
(* if the option is required.                                               *)
C29_OptionClauseRule ==
    (level = "option" /\ rendered # None) =>
        LET o == Result.val[1]
            clause == rendered[1].clause
            IsRule(e) == e \in ParsingRules
            expected ==
                CASE o.type = "bool" -> <<", is_flag=True">>
                  [] o.type = "int" -> <<", type=int">>
                  [] o.type = "float" -> <<", type=float">>
                  [] o.type = "path" -> <<", type=click.Path()">>
                  [] o.type = "choice" -> <<", type=click.Choice([">>
                  [] OTHER -> << >>
        IN  /\ SelectSeq(clause, IsRule) = expected
            /\ o.type = "choice" =>
                  Split(Between(clause, ", type=click.Choice([", "])"), ", ")
                     = [i \in DOMAIN o.choices[1] |->
                           <<DQ>> \o o.choices[1][i] \o <<DQ>>]
            /\ SubSeq(clause, 1, 2) = <<"@click.option(", DQ>>
            /\ IF o.short # None
               THEN SubSeq(clause, 3, 7)
                       = <<"-", o.short[1][1], DQ, ", ", DQ>>
               ELSE clause[3] = "--"
            /\ (", required=True" \in Range(clause)) <=> o.required

(* An option of type choice with two choices, a short name and the required *)
(* flag was rendered.                                                       *)
C29_Witness ==
    /\ level = "option" /\ rendered # None
    /\ Result.val[1].type = "choice"
    /\ Len(Result.val[1].choices[1]) = 2
    /\ Result.val[1].choices[1][1] # Result.val[1].choices[1][2]
    /\ Result.val[1].short # None
    /\ Result.val[1].required

(* The call of generate before the current one. *)
Previous == gen.past[Len(gen.past)]

(* C30: when generate returns for an output directory that holds the result *)
(* of the call before it, for the same Specification or for another of the  *)
(* same name, it returns the mapping that call returned, the filesystem has *)
(* the directories and the files it had and no other, every file outside    *)
(* the four artifacts is as it was, and each artifact holds what the        *)
(* Specification now emitted renders: the content it had when the           *)
(* Specification is the same, and none of the earlier content when the      *)
(* artifact of the earlier Specification differs.  Making a directory that  *)
(* exists is not an error.                                                  *)
C30_ReemissionOverwrites ==
    /\ \A d \in disk.dirs :
          /\ mkdir(disk, d, TRUE, "ok") = [ok |-> TRUE, fs |-> disk]
          /\ mkdir(disk, d, FALSE, "ok") = [ok |-> TRUE, fs |-> disk]
    /\ (Returned /\ gen.past # << >>
        /\ Previous.output_dir = gen.output_dir) =>
          /\ gen.result = Previous.result
          /\ disk.dirs = Previous.disk.dirs
          /\ DOMAIN disk.files = DOMAIN Previous.disk.files
          /\ \A q \in DOMAIN disk.files :
                (\A i \in DOMAIN gen.result : gen.result[i].path # q)
                    => disk.files[q] = Previous.disk.files[q]
          /\ \A i \in DOMAIN gen.result :
                LET q == gen.result[i].path
                    now == ArtifactContent(held[1], gen.result[i].kind)
                    before == ArtifactContent(Previous.spec, gen.result[i].kind)
                IN  /\ disk.files[q] = now
                    /\ Previous.spec = held[1]
                          => disk.files[q] = Previous.disk.files[q]
                    /\ before # now
                          => disk.files[q] # Previous.disk.files[q]

(* generate returned for an output directory that held the four artifacts   *)
(* of another Specification of the same name, each different from the       *)
(* artifact now written.                                                    *)
C30_Witness ==
    /\ level = "reemit" /\ Returned /\ gen.past # << >>
    /\ Previous.output_dir = gen.output_dir
    /\ Previous.spec # held[1]
    /\ Previous.spec.name = held[1].name
    /\ \A i \in DOMAIN gen.result :
          disk.files[gen.result[i].path]
             # Previous.disk.files[gen.result[i].path]

=============================================================================
